---- MODULE Spec2Model ----
(***************************************************************************)
(* Model of the provider core of ainative-code (python-backend):           *)
(*   app/providers/base.py       BaseAIProvider: the cache-aware            *)
(*                               dispatcher generate_completion /           *)
(*                               generate_chat_completion and _is_cacheable *)
(*   app/providers/anthropic.py  AnthropicProvider: _retry_with_backoff,    *)
(*                               _create_message_with_tools, the two        *)
(*                               _impl methods, register_tool and           *)
(*                               _execute_tool                              *)
(*                                                                         *)
(* Every action runs one coroutine from one suspension point (an await     *)
(* that really suspends: the cache collaborator, the remote call,          *)
(* asyncio.sleep) to the next one, as the asyncio event loop does.         *)
(* The cache collaborator and the remote transport are the environment:    *)
(* their replies are drawn nondeterministically.                           *)
(***************************************************************************)
EXTENDS Integers, Sequences, FiniteSets, TLC

(***************************************************************************)
(* Bounds and value sets                                                   *)
(***************************************************************************)
\* Largest max_retries the provider is configured with.
MaxRetriesBound == 4

\* Largest number of register_tool calls made on one provider.
MaxRegistrations == 3

\* config.get("max_retries", 3)
DefaultMaxRetries == 3

\* config.get("retry_delay", 1.0), in units of 0.01 s.
DefaultRetryDelay == 100

\* Optional values: None is <<>>, a present value x is <<x>>.
None == <<>>
Some(x) == <<x>>
Val(o) == o[1]

\* Python truthiness of an Optional[float] / Optional[int].
TruthyNum(o) == o # None /\ Val(o) # 0

\* retry_delay values (config "retry_delay"), in units of 0.01 s.
RetryDelays == {0, 3}

\* Contents the remote model may generate.
Contents == {"c1", "c2"}

Tasks == {"t1"}

\* The tasks (coroutines of callers) that may share one provider.
AllTasks == {"t1", "t2"}

\* AIProviderSchema.ANTHROPIC
ANTHROPIC == "anthropic"

\* The keys of additional_params the code reads.  A key that is absent maps
\* to None.  (None and {} for the whole map behave alike in every use.)
NoParams == [stream |-> None, user |-> None, request_id |-> None,
             max_tokens |-> None, temperature |-> None, thinking |-> None]

\* A request with only the required capability set (AIRequestBase
\* defaults).  Temperature is in tenths.
NoRequest ==
    [prompt |-> None, messages |-> None, capability |-> "completion",
     temperature |-> None, max_tokens |-> None, additional_params |-> NoParams]

\* The requests callers submit (AIRequestBase values).
Requests ==
    { [NoRequest EXCEPT !.prompt = Some("p1")],
      [NoRequest EXCEPT !.prompt = Some("p2"), !.capability = "chat_completion",
                        !.temperature = Some(0)],
      [NoRequest EXCEPT !.prompt = Some("p1"), !.temperature = Some(7)],
      [NoRequest EXCEPT !.prompt = Some("p1"),
                        !.additional_params = [NoParams EXCEPT !.stream = Some(FALSE)]] }

\* Provider configurations: a key that is absent maps to None
\* (disable_caching: to False, as config.get("disable_caching", False)).
NoConfig == [disable_caching |-> FALSE, max_tokens |-> None, temperature |-> None]

\* Messages the remote model may answer with: its text and its usage.
RemoteUsage ==
    [c \in Contents |->
        IF c = "c1" THEN [input_tokens |-> 3, output_tokens |-> 5]
        ELSE [input_tokens |-> 0, output_tokens |-> 7]]

RemoteMessages == { [content |-> c, usage |-> RemoteUsage[c]] : c \in Contents }

(***************************************************************************)
(* Errors.  cls is the Python class, at the 0-based attempt of the remote  *)
(* call that raised it (-1 when raised locally), cause the class of the    *)
(* error it was built from ("none" for an original error).                 *)
(***************************************************************************)
\* e.status_code: only the status errors of the SDK carry one.
StatusCode(cls) ==
    IF cls = "RateLimitError" THEN Some(429)
    ELSE IF cls = "APIStatusError" THEN Some(400)
    ELSE None

\* str(e) / e.message of an error as it is first raised.
MessageOf(cls) ==
    CASE cls = "RateLimitError" -> "rate limit exceeded"
      [] cls = "APIStatusError" -> "invalid request"
      [] cls = "APITimeoutError" -> "request timed out"
      [] cls = "APIConnectionError" -> "connection error"
      [] cls = "ValueError" -> "API key not provided. Please set ANTHROPIC_API_KEY environment variable."
      [] cls = "TypeError" -> "exceptions must derive from BaseException"
      [] OTHER -> "failed"

\* status is the status_code attribute (None when the class has none);
\* message is the text of the error: a fixed prefix put before another
\* error's text.
Err(cls, at) ==
    [cls |-> cls, at |-> at, cause |-> "none", status |-> StatusCode(cls),
     message |-> [prefix |-> "", text |-> MessageOf(cls)]]

\* Classes the remote transport raises (anthropic SDK): RateLimitError is a
\* subclass of APIStatusError, APITimeoutError of APIConnectionError;
\* RuntimeError stands for any other Exception.
RemoteErrorClasses ==
    {"RateLimitError", "APITimeoutError", "APIConnectionError",
     "APIStatusError", "RuntimeError"}

\* isinstance(e, APIStatusError)
IsAPIStatusError(cls) == cls \in {"APIStatusError", "RateLimitError"}

\* Mutant: every API error is retried, a status error included.
IsRetryableAnyApiError(cls) ==
    cls \in {"RateLimitError", "APITimeoutError", "APIConnectionError",
             "APIStatusError"}

\* The except clauses of _retry_with_backoff that retry.
IsRetryable(cls) ==
    cls \in {"RateLimitError", "APITimeoutError", "APIConnectionError"}

\* Mutant: linear instead of exponential backoff.
WaitTimeLinear(delay, attempt) == delay * (attempt + 1)

\* wait_time = self.retry_delay * (2 ** attempt)
WaitTime(delay, attempt) == delay * (2 ^ attempt)

\* Mutant: gives up one attempt early.
HasNextAttemptOffByOne(attempt, maxRetries) == attempt < maxRetries - 2

\* Mutant: the loop has no last iteration.
HasNextAttemptAlways(attempt, maxRetries) == TRUE

\* if attempt < self.max_retries - 1: sleep and go round again
HasNextAttempt(attempt, maxRetries) == attempt < maxRetries - 1

\* Mutant: keeps the first error instead of the last.
TrackLastKeepFirst(last, e) == IF last = None THEN Some(e) ELSE last

\* last_exception = e
TrackLast(last, e) == Some(e)

\* The except clauses of _create_message_with_tools: an APIStatusError
\* becomes a ValueError, anything else a plain Exception.
WrapError(e) ==
    IF IsAPIStatusError(e.cls)
    THEN [cls |-> "ValueError", at |-> e.at, cause |-> e.cls, status |-> None,
          message |-> [prefix |-> "Anthropic API error: ", text |-> e.message.text]]
    ELSE [cls |-> "Exception", at |-> e.at, cause |-> e.cls, status |-> None,
          message |-> [prefix |-> "Failed to call Anthropic API: ",
                       text |-> e.message.text]]

\* raise ValueError("API key not provided. ...")
ApiKeyError == Err("ValueError", -1)

\* `raise last_exception` with last_exception = None (the loop body never
\* ran): Python raises TypeError("exceptions must derive from
\* BaseException").
RaiseNoneError == Err("TypeError", -1)

\* What a failing cache collaborator raises.
CacheError == Err("CacheError", -1)

\* asyncio.CancelledError, raised at the await where a cancelled task is
\* suspended.  It is a BaseException: no `except Exception` catches it.
CancelledError == Err("CancelledError", -1)

\* The transient classes of the remote transport: rate-limit rejection,
\* request timeout, connection failure.
TransientClasses == {"RateLimitError", "APITimeoutError", "APIConnectionError"}

\* The kind of a remote reply, as the environment gave it.
ReplyKind(cls) == IF cls \in TransientClasses THEN "transient" ELSE "permanent"

\* The message lists of the requests whose payload is examined: with one,
\* several or only system messages, a system message that is not first,
\* the roles human and tool, an empty list.
PayloadMessages ==
    { <<>>,
      <<[role |-> "system", content |-> "S"], [role |-> "user", content |-> "A"],
        [role |-> "assistant", content |-> "B"]>>,
      <<[role |-> "user", content |-> "A"]>>,
      <<[role |-> "human", content |-> "H"], [role |-> "system", content |-> "S"],
        [role |-> "system", content |-> "S2"], [role |-> "user", content |-> "A"]>>,
      <<[role |-> "system", content |-> "S"]>>,
      <<[role |-> "user", content |-> "A"], [role |-> "tool", content |-> "T"],
        [role |-> "user", content |-> "A"]>> }

PayloadParams ==
    [stream : {None}, user : {None}, request_id : {None},
     max_tokens : {None, Some(0), Some(200)},
     temperature : {None, Some(0), Some(5)},
     thinking : {None}]

\* The requests whose payload is examined.
PayloadRequests ==
    [prompt : {None, Some("p1")},
     messages : {None} \cup {Some(m) : m \in PayloadMessages},
     capability : {"completion"},
     temperature : {None, Some(0), Some(3)},
     max_tokens : {None, Some(100)},
     additional_params : PayloadParams]

\* The configurations they are sent under.
PayloadConfigs ==
    [disable_caching : {FALSE},
     max_tokens : {None, Some(1000)},
     temperature : {None, Some(0), Some(2)}]

(***************************************************************************)
(* The payload of the remote call (anthropic.py 220-240, 257-309, 347-365, *)
(* 410-433)                                                                *)
(***************************************************************************)
\* Python truthiness of an Optional list or an Optional str.
TruthySeq(o) == o # None /\ Val(o) # <<>>
TruthyStr(o) == o # None /\ Val(o) # ""

\* The hard-coded defaults: max_tokens, and temperature in tenths (0.7).
HardMaxTokens == 4096
HardTemperature == 7

\* The role _format_messages writes for a message of role r.
ConvertRole(r) == IF r \in {"human", "user"} THEN "user" ELSE r

\* The messages msgs[i..] that are not system messages, converted.
RECURSIVE FormatFrom(_, _)
FormatFrom(msgs, i) ==
    IF i > Len(msgs) THEN <<>>
    ELSE IF msgs[i].role = "system" THEN FormatFrom(msgs, i + 1)
    ELSE <<[role |-> ConvertRole(msgs[i].role), content |-> Some(msgs[i].content)]>>
         \o FormatFrom(msgs, i + 1)

\* Mutant: the system messages stay in the list.
FormatMessagesKeepsSystem(request) ==
    IF TruthySeq(request.messages)
    THEN [i \in 1..Len(Val(request.messages)) |->
             [role |-> ConvertRole(Val(request.messages)[i].role),
              content |-> Some(Val(request.messages)[i].content)]]
    ELSE <<[role |-> "user", content |-> request.prompt]>>

\* _format_messages(request)
FormatMessages(request) ==
    IF TruthySeq(request.messages)
    THEN FormatFrom(Val(request.messages), 1)
    ELSE <<[role |-> "user", content |-> request.prompt]>>

\* _extract_system_message(request): the content of the first system
\* message.
ExtractSystemMessage(request) ==
    IF ~TruthySeq(request.messages) THEN None
    ELSE LET msgs == Val(request.messages)
             idx == { i \in 1..Len(msgs) : msgs[i].role = "system" }
         IN  IF idx = {} THEN None
             ELSE Some(msgs[CHOOSE i \in idx : \A j \in idx : i <= j].content)

\* max_tokens = additional_params.get("max_tokens");
\* max_tokens = max_tokens or self.config.get("max_tokens", 4096)
ResolveMaxTokens(request, cfg) ==
    IF TruthyNum(request.additional_params.max_tokens)
    THEN Val(request.additional_params.max_tokens)
    ELSE IF cfg.max_tokens # None THEN Val(cfg.max_tokens)
    ELSE HardMaxTokens

\* temperature = additional_params.get("temperature");
\* temperature = temperature if temperature is not None
\*               else self.config.get("temperature", 0.7)
ResolveTemperature(request, cfg) ==
    IF request.additional_params.temperature # None
    THEN Val(request.additional_params.temperature)
    ELSE IF cfg.temperature # None THEN Val(cfg.temperature)
    ELSE HardTemperature

\* The keyword arguments _generate_completion_impl passes to
\* _create_message_with_tools.
CompletionArgs(request, cfg) ==
    [messages |-> <<[role |-> "user", content |-> request.prompt]>>,
     max_tokens |-> Some(ResolveMaxTokens(request, cfg)),
     temperature |-> Some(ResolveTemperature(request, cfg)),
     system |-> None,
     tools |-> None,
     thinking |-> request.additional_params.thinking]

\* The keyword arguments _generate_chat_completion_impl passes.
ChatArgs(request, cfg) ==
    [messages |-> FormatMessages(request),
     max_tokens |-> Some(ResolveMaxTokens(request, cfg)),
     temperature |-> Some(ResolveTemperature(request, cfg)),
     system |-> ExtractSystemMessage(request),
     tools |-> None,
     thinking |-> request.additional_params.thinking]

ImplArgs(op, request, cfg) ==
    IF op = "completion" THEN CompletionArgs(request, cfg)
    ELSE ChatArgs(request, cfg)

\* request_params of _create_message_with_tools: a key that is not set
\* maps to None.
RequestParams(args, cfg) ==
    [messages |-> args.messages,
     max_tokens |->
         IF TruthyNum(args.max_tokens) THEN Val(args.max_tokens)
         ELSE IF cfg.max_tokens # None THEN Val(cfg.max_tokens)
         ELSE HardMaxTokens,
     temperature |->
         IF args.temperature # None THEN args.temperature
         ELSE cfg.temperature,
     system |-> IF TruthyStr(args.system) THEN args.system ELSE None,
     tools |-> IF TruthySeq(args.tools) THEN args.tools ELSE None,
     thinking |-> IF TruthyStr(args.thinking) THEN args.thinking ELSE None]

(***************************************************************************)
(* Cache gate: BaseAIProvider._is_cacheable                                *)
(***************************************************************************)
NonCacheableKeys == {"stream", "user", "request_id"}

\* Mutant: the temperature rule is missing.
IsCacheableAnyTemperature(request, cfg) ==
    IF \E k \in NonCacheableKeys : request.additional_params[k] # None
    THEN FALSE
    ELSE IF cfg.disable_caching
    THEN FALSE
    ELSE TRUE

\* Mutant: a key counts only when its value is truthy
\* (additional_params.get(k) instead of k in additional_params).
IsCacheableTruthyKeys(request, cfg) ==
    LET p == request.additional_params
    IN  IF TruthyNum(request.temperature) /\ Val(request.temperature) > 0
        THEN FALSE
        ELSE IF \/ p.stream = Some(TRUE)
                \/ (p.user # None /\ Val(p.user) # "")
                \/ (p.request_id # None /\ Val(p.request_id) # "")
        THEN FALSE
        ELSE IF cfg.disable_caching
        THEN FALSE
        ELSE TRUE

\* Mutant: the provider's disable_caching setting is not consulted.
IsCacheableIgnoresConfig(request, cfg) ==
    IF TruthyNum(request.temperature) /\ Val(request.temperature) > 0
    THEN FALSE
    ELSE IF \E k \in NonCacheableKeys : request.additional_params[k] # None
    THEN FALSE
    ELSE TRUE

IsCacheable(request, cfg) ==
    IF TruthyNum(request.temperature) /\ Val(request.temperature) > 0
    THEN FALSE
    ELSE IF \E k \in NonCacheableKeys : request.additional_params[k] # None
    THEN FALSE
    ELSE IF cfg.disable_caching
    THEN FALSE
    ELSE TRUE

\* The key the dispatcher hands to the cache collaborator.
CacheKey(request, provider_name) == <<request, provider_name>>

\* generate(prompt, max_tokens, temperature, **kwargs) builds its request
\* (anthropic.py 520-528): both parameters go to additional_params.
DefaultGenerateMaxTokens == 2048

BuildGenerateRequest(prompt, max_tokens, temperature, kwargs) ==
    [NoRequest EXCEPT
        !.prompt = Some(prompt),
        !.capability = "completion",
        !.additional_params =
            [kwargs EXCEPT
                !.max_tokens = Some(IF TruthyNum(max_tokens) THEN Val(max_tokens)
                                    ELSE DefaultGenerateMaxTokens),
                !.temperature = Some(temperature)]]

\* The arguments generate is called with: temperature 0.7 when not given.
GenerateMaxTokens == {None, Some(100)}
GenerateTemperatures == {0, HardTemperature}
GenerateKwargs == {NoParams, [NoParams EXCEPT !.stream = Some(TRUE)]}

GenerateRequests ==
    { BuildGenerateRequest("p1", m, temp, kw) :
          m \in GenerateMaxTokens, temp \in GenerateTemperatures,
          kw \in GenerateKwargs }

CacheKeys == { CacheKey(r, ANTHROPIC) : r \in Requests \cup GenerateRequests }

\* The requests _is_cacheable is evaluated on: every combination of an
\* absent, negative, zero or positive temperature with each key of
\* additional_params absent or present, present with a falsy or a truthy
\* value.
GateTemperatures == {None, Some(-3), Some(0), Some(1), Some(7)}

GateParams ==
    [stream : {None, Some(FALSE), Some(TRUE)},
     user : {None, Some(""), Some("u1")},
     request_id : {None, Some(""), Some("r1")},
     max_tokens : {None, Some(100)},
     temperature : {None}, thinking : {None}]

GateRequests ==
    [prompt : {Some("p1")}, messages : {None}, capability : {"completion"},
     temperature : GateTemperatures, max_tokens : {None},
     additional_params : GateParams]

(***************************************************************************)
(* State                                                                   *)
(***************************************************************************)
VARIABLES
    api_key,        \* self.api_key: None or the key (possibly empty)
    config,         \* self.config
    max_retries,    \* self.max_retries
    retry_delay,    \* self.retry_delay
    cache_service,  \* self.cache_service: None or the collaborator, by
                    \* what it hands back: "cache" copies of what it
                    \* holds, "memory" the very objects it holds
    store,          \* what the cache collaborator holds, by key
    frame,          \* per task: the call in flight (or last returned)
    prev,           \* per task: summary of the call before that one
    gate,           \* an evaluation of _is_cacheable: argument and result
    tools,          \* self.tools: the list of tool definitions
    tool_handlers,  \* self.tool_handlers: dict, as its items in key order
    tcall,          \* per task: the _execute_tool call in flight (or last)
    regs,           \* the register_tool calls made so far, in order
    workload,       \* the requests the callers of this provider submit
    model_id,       \* self.model_id
    ecall,          \* the last generate_embeddings call
    ncall,          \* the last get_token_count call
    pcall           \* the last get_provider call

vars == <<api_key, config, max_retries, retry_delay, cache_service, store,
          frame, prev, gate, tools, tool_handlers, tcall, regs, workload,
          model_id, ecall, ncall, pcall>>

\* The tool registry with its calls.
tooling == <<tools, tool_handlers, tcall, regs>>

provider == <<api_key, model_id, config, max_retries, retry_delay, cache_service>>

\* The calls that never reach the remote API.
aux == <<ecall, ncall, pcall>>

\* A call that has not started.
\*   request_params            the keyword arguments of the remote call
\*   entry                     "generate" when the call was made through
\*                             the generate convenience method
\*   cancelled_at              the await at which the caller cancelled it
\*   cancelled_beside          another call was in flight at that moment
\*   began_in_backoff          another call was in a backoff wait when this
\*                             one began
\*   attempt, last_exception   the locals of _retry_with_backoff
\*   invocations, waits        the calls of func and of asyncio.sleep made
\*   cache_reads, cache_writes, impl_calls, get_key, put_key
\*                             the calls the dispatcher made
\*   retry_*, impl_*           what _retry_with_backoff and the _impl method
\*                             returned or raised
\*   response, error           what the caller received
\*   held                      the key under which the cache collaborator
\*                             holds the very object the call generated or
\*                             received (None when it holds none of them)
\*   replies, remote_value, remote_error, get_answer, put_answer
\*                             what the environment answered: the kind of
\*                             each remote reply in order, the last message
\*                             and the last error of the remote call, and
\*                             the answers of the cache collaborator
Frame0 ==
    [pc |-> "idle", op |-> "none", request |-> None,
     attempt |-> 0, last_exception |-> None,
     invocations |-> 0, waits |-> <<>>,
     cache_reads |-> 0, cache_writes |-> 0, impl_calls |-> 0,
     get_key |-> None, put_key |-> None,
     retry_value |-> None, retry_error |-> None,
     impl_response |-> None, impl_error |-> None,
     response |-> None, error |-> None,
     replies |-> <<>>, remote_value |-> None, remote_error |-> None,
     get_answer |-> "none", put_answer |-> "none",
     request_params |-> None,
     cancelled_at |-> "none", cancelled_beside |-> FALSE,
     began_in_backoff |-> FALSE, entry |-> "direct", held |-> None]

\* if self.cache_service and self._is_cacheable(request)
UseCache(request) ==
    cache_service # None /\ IsCacheable(request, config)

(***************************************************************************)
(* The synchronous stretches of a call, as functions of its frame f: each  *)
(* gives the frame at the next suspension point or at the end of the call. *)
(***************************************************************************)
\* The call ends by returning r to the caller.
Return(f, r) == [f EXCEPT !.pc = "done", !.response = Some(r)]

\* The call ends by raising e to the caller.
Raise(f, e) == [f EXCEPT !.pc = "done", !.error = Some(e)]

\* Mutant: the fresh response is returned without being stored.
AfterImplReturnNoStore(f, resp) == Return(f, resp)

\* Mutant: the fresh response is stored whenever a cache is attached,
\* cacheable or not.
AfterImplReturnIgnoresGate(f, resp) ==
    IF cache_service # None
    THEN [f EXCEPT !.pc = "cache_put",
                   !.cache_writes = @ + 1,
                   !.put_key = Some(CacheKey(Val(f.request), ANTHROPIC))]
    ELSE Return(f, resp)

\* base.py 75-81 (122-128): the _impl method returned resp.
AfterImplReturn(f, resp) ==
    IF UseCache(Val(f.request))
    THEN [f EXCEPT !.pc = "cache_put",
                   !.cache_writes = @ + 1,
                   !.put_key = Some(CacheKey(Val(f.request), ANTHROPIC))]
    ELSE Return(f, resp)

\* Mutant: the dispatcher wraps the error of the _impl method.
AfterImplRaiseWrapped(f, e) ==
    Raise(f, [Err("RuntimeError", -1) EXCEPT !.cause = e.cls])

\* base.py 73 (120): the _impl method raised e; nothing catches it.
AfterImplRaise(f, e) == Raise(f, e)

\* The _impl method returns resp to the dispatcher.
ImplReturn(f, resp) == AfterImplReturn([f EXCEPT !.impl_response = Some(resp)], resp)

\* The _impl method raises e to the dispatcher.
ImplRaise(f, e) == AfterImplRaise([f EXCEPT !.impl_error = Some(e)], e)

\* Mutant: the total counts the generated tokens only.
BuildResponseOutputAsTotal(msg) ==
    LET input_tokens == msg.usage.input_tokens
        output_tokens == msg.usage.output_tokens
        total_tokens == output_tokens
    IN  [content |-> msg.content, is_cached |-> FALSE,
         usage |-> [prompt_tokens |-> input_tokens,
                    completion_tokens |-> output_tokens,
                    total_tokens |-> total_tokens],
         total_tokens |-> total_tokens,
         prompt_tokens |-> input_tokens,
         completion_tokens |-> output_tokens]

\* anthropic.py 367-391 (432-456): the AIResponse built from the remote
\* message.
BuildResponse(msg) ==
    LET input_tokens == msg.usage.input_tokens
        output_tokens == msg.usage.output_tokens
        total_tokens == input_tokens + output_tokens
    IN  [content |-> msg.content, is_cached |-> FALSE,
         usage |-> [prompt_tokens |-> input_tokens,
                    completion_tokens |-> output_tokens,
                    total_tokens |-> total_tokens],
         total_tokens |-> total_tokens,
         prompt_tokens |-> input_tokens,
         completion_tokens |-> output_tokens]

\* _retry_with_backoff returned msg; _create_message_with_tools returns it
\* and the _impl method builds the response.
RetryReturn(f, msg) ==
    ImplReturn([f EXCEPT !.retry_value = Some(msg),
                         !.attempt = 0, !.last_exception = None],
               BuildResponse(msg))

\* _retry_with_backoff raised e; _create_message_with_tools wraps it
\* (anthropic.py 250-255) and the _impl method lets it through.
RetryRaise(f, e) ==
    ImplRaise([f EXCEPT !.retry_error = Some(e),
                        !.attempt = 0, !.last_exception = None],
              WrapError(e))

\* anthropic.py 150-152: the next iteration of the loop calls func.
CallRemote(f, attempt) ==
    [f EXCEPT !.pc = "remote", !.attempt = attempt, !.invocations = @ + 1]

\* anthropic.py 148-150, 188: entering _retry_with_backoff.  With
\* max_retries <= 0 the loop body never runs and `raise last_exception`
\* raises None.
EnterRetry(f) ==
    IF max_retries <= 0
    THEN RetryRaise(f, RaiseNoneError)
    ELSE CallRemote(f, 0)

\* anthropic.py 153-188: func raised e on iteration f.attempt.
OnRemoteError(f, e) ==
    IF IsRetryable(e.cls)
    THEN LET last == TrackLast(f.last_exception, e)
         IN  IF HasNextAttempt(f.attempt, max_retries)
             THEN [f EXCEPT !.pc = "sleep",
                            !.last_exception = last,
                            !.waits = Append(@, WaitTime(retry_delay, f.attempt))]
             ELSE RetryRaise(f, Val(last))
    ELSE RetryRaise(f, e)

\* Mutant: the registered definitions are sent when no tools are passed.
EnterCreateMessageWithTools(f) ==
    IF ~TruthyStr(api_key)
    THEN ImplRaise(f, ApiKeyError)
    ELSE EnterRetry([f EXCEPT !.request_params =
                        Some([RequestParams(ImplArgs(f.op, Val(f.request), config),
                                            config)
                                 EXCEPT !.tools = IF tools # <<>> THEN Some(tools)
                                                  ELSE None])])

\* anthropic.py 215-218, 243-248: _create_message_with_tools up to the
\* retry loop.  `if not self.api_key` rejects None and the empty string.
EnterCreateMessage(f) ==
    IF ~TruthyStr(api_key)
    THEN ImplRaise(f, ApiKeyError)
    ELSE EnterRetry([f EXCEPT !.request_params =
                        Some(RequestParams(ImplArgs(f.op, Val(f.request), config),
                                           config))])

\* base.py 73 (120): the dispatcher invokes the _impl method.
EnterImpl(f) == EnterCreateMessage([f EXCEPT !.impl_calls = @ + 1])

\* Mutant: the cache is read whenever one is attached, cacheable or not.
DispatchIgnoresGate(f) ==
    IF cache_service # None
    THEN [f EXCEPT !.pc = "cache_get",
                   !.cache_reads = @ + 1,
                   !.get_key = Some(CacheKey(Val(f.request), ANTHROPIC))]
    ELSE EnterImpl(f)

\* Mutant: the dispatcher starts the cache read and goes on to the _impl
\* method without awaiting it.
DispatchWithoutAwait(f) ==
    IF UseCache(Val(f.request))
    THEN EnterImpl([f EXCEPT !.cache_reads = @ + 1,
                             !.get_key = Some(CacheKey(Val(f.request), ANTHROPIC))])
    ELSE EnterImpl(f)

\* base.py 62-65 (107-110): the start of generate_completion /
\* generate_chat_completion.
Dispatch(f) ==
    IF UseCache(Val(f.request))
    THEN [f EXCEPT !.pc = "cache_get",
                   !.cache_reads = @ + 1,
                   !.get_key = Some(CacheKey(Val(f.request), ANTHROPIC))]
    ELSE EnterImpl(f)

\* Mutant: the cached response is returned without being marked.
OnCacheHitUnmarked(f, cached) == Return(f, cached)

\* base.py 66-70 (111-117): get_cached_response returned a response.
OnCacheHit(f, cached) == Return(f, [cached EXCEPT !.is_cached = TRUE])

\* base.py 66, 72-73: get_cached_response returned None.
OnCacheMiss(f) == EnterImpl(f)

\* base.py 63: get_cached_response raised e; nothing catches it.
OnCacheGetError(f, e) == Raise(f, e)

\* base.py 77-81: cache_response returned.
OnCachePutDone(f) == Return(f, Val(f.impl_response))

\* base.py 77: cache_response raised e; nothing catches it.
OnCachePutError(f, e) == Raise(f, e)

\* Mutant: the retry loop takes a cancellation during the backoff wait for
\* the end of the wait, and a cancellation of the remote call for a
\* timeout.
OnCancelRetried(f) ==
    IF f.pc = "sleep" THEN CallRemote(f, f.attempt + 1)
    ELSE IF f.pc = "remote" THEN OnRemoteError(f, Err("APITimeoutError", f.attempt))
    ELSE Raise(f, CancelledError)

\* CancelledError is raised at the await of f: no except clause of
\* _retry_with_backoff (anthropic.py 153-185), of
\* _create_message_with_tools (250-255) or of the dispatcher catches it.
\* Raised at the remote call or the backoff wait it leaves
\* _retry_with_backoff and the _impl method as it is; raised at a cache
\* await it leaves the dispatcher only.  The backoff wait is awaited
\* inside the except clause of the transient error (153-182), so a
\* CancelledError raised there has that error as its context.
OnCancel(f) ==
    LET e == IF f.pc = "sleep"
             THEN [CancelledError EXCEPT !.at = Val(f.last_exception).at,
                                         !.cause = Val(f.last_exception).cls]
             ELSE CancelledError
    IN  IF f.pc \in {"remote", "sleep"}
        THEN ImplRaise([f EXCEPT !.retry_error = Some(e),
                                 !.attempt = 0, !.last_exception = None],
                       e)
        ELSE Raise(f, CancelledError)

\* What is kept of a returned call when the task makes its next one: the
\* caller still has the response object.
Summary(f) ==
    [op |-> f.op, request |-> Val(f.request), response |-> f.response,
     impl_calls |-> f.impl_calls, held |-> f.held]

\* cache_response(request, response, ...) stored the response of frame f
\* under key k, or get_cached_response handed f the entry under k: a
\* collaborator that keeps the objects given to it and hands the same
\* objects back (an in-process cache, "memory") holds the very object f
\* has; one that hands back copies (a serialising cache) does not.
HoldFrame(f, k) ==
    [f EXCEPT !.held = IF cache_service = Some("memory") THEN Some(k) ELSE None]

\* The frames after the call of t moved to f while the entry under key k
\* changed.  how = "mark": base.py 68 (115), cached_response.is_cached =
\* True, shows in every call that has the object held under k.
\* how = "drop": the collaborator put another object under k or dropped
\* the entry, so the objects the calls have are no longer the one it holds.
HeldByFrames(t, f, k, how) ==
    [u \in AllTasks |->
        IF u = t THEN f
        ELSE IF frame[u].held # Some(k) THEN frame[u]
        ELSE IF how = "mark"
        THEN [frame[u] EXCEPT
                 !.response = IF @ = None THEN @
                              ELSE Some([Val(@) EXCEPT !.is_cached = TRUE]),
                 !.impl_response = IF @ = None THEN @
                                   ELSE Some([Val(@) EXCEPT !.is_cached = TRUE])]
        ELSE [frame[u] EXCEPT !.held = None]]

\* The same for the responses the callers kept from their calls before.
HeldByCallers(k, how) ==
    [u \in AllTasks |->
        IF prev[u] = None \/ Val(prev[u]).held # Some(k) THEN prev[u]
        ELSE IF how = "mark"
        THEN Some([Val(prev[u]) EXCEPT
                      !.response = IF @ = None THEN @
                                   ELSE Some([Val(@) EXCEPT !.is_cached = TRUE])])
        ELSE Some([Val(prev[u]) EXCEPT !.held = None])]

(***************************************************************************)
(* _is_cacheable called on its own                                         *)
(***************************************************************************)
\* No evaluation of _is_cacheable under way.
Gate0 == [request |-> None, result |-> None]

(***************************************************************************)
(* The tool registry (register_tool, _execute_tool)                        *)
(***************************************************************************)
\* Tool definitions callers register: two of them carry the same name.
ToolDefinitions ==
    { [name |-> "calculator", description |-> "Calculator"],
      [name |-> "calculator", description |-> "Calculator v2"],
      [name |-> "search", description |-> "Search"] }

\* The names callers execute; "missing" is never registered.
ToolNames == {"calculator", "search", "missing"}

\* The handlers (async callables) callers bind.
Handlers == {"h1", "h2"}

\* The keyword arguments tools are executed with.
ToolInputs == { [a |-> 5, b |-> 3], [a |-> 0, b |-> 0] }

\* What a handler may return, and the message str(e) of what it may raise.
ToolValues == {0, 8}
HandlerErrors == {"Tool failed", ""}

\* A Python dict is the sequence of its items [key, value] in insertion
\* order, no key twice.
DictKeys(d) == [i \in 1..Len(d) |-> d[i].key]

DictHas(d, k) == \E i \in 1..Len(d) : d[i].key = k

DictGet(d, k) == d[CHOOSE i \in 1..Len(d) : d[i].key = k].value

\* d[k] = v: a key already present keeps its place and takes the new value.
DictSet(d, k, v) ==
    IF DictHas(d, k)
    THEN [i \in 1..Len(d) |-> IF d[i].key = k THEN [key |-> k, value |-> v] ELSE d[i]]
    ELSE Append(d, [key |-> k, value |-> v])

\* self.tools.append(tool_definition)
ToolsAfterRegister(ts, definition) == Append(ts, definition)

\* Mutant: a name already bound keeps its first handler (dict.setdefault).
HandlersKeepFirst(hs, definition, handler) ==
    IF DictHas(hs, definition.name) THEN hs
    ELSE DictSet(hs, definition.name, handler)

\* self.tool_handlers[tool_definition["name"]] = handler
HandlersAfterRegister(hs, definition, handler) ==
    DictSet(hs, definition.name, handler)

\* The dict _execute_tool returns, with a key that is absent mapped to None.
NoResult ==
    [success |-> None, result |-> None, error |-> None, available_tools |-> None]

\* f"Tool '{tool_name}' not found"
NotFoundMessage(tool_name) ==
    CASE tool_name = "calculator" -> "Tool 'calculator' not found"
      [] tool_name = "search" -> "Tool 'search' not found"
      [] tool_name = "missing" -> "Tool 'missing' not found"

NotFoundResult(tool_name, hs) ==
    [NoResult EXCEPT !.error = Some(NotFoundMessage(tool_name)),
                     !.available_tools = Some(DictKeys(hs))]

\* Mutant: success is the truthiness of the handler's value.
SuccessResultByTruthiness(value) ==
    [NoResult EXCEPT !.success = Some(value # 0), !.result = Some(value)]

SuccessResult(value) ==
    [NoResult EXCEPT !.success = Some(TRUE), !.result = Some(value)]

\* Mutant: the failure carries the success tag of the other return.
FailureResultTaggedSuccess(message) ==
    [NoResult EXCEPT !.error = Some(message), !.success = Some(TRUE)]

FailureResult(message) ==
    [NoResult EXCEPT !.error = Some(message), !.success = Some(FALSE)]

\* An _execute_tool call that has not started.
\*   handler                   the local of _execute_tool
\*   result, raised            what the caller received
\*   calls                     the handler invocations made, with arguments
\*   bound, known              what the register_tool calls made before the
\*                             call had bound to tool_name, and the names
\*                             they had registered
\*   handler_answer, handler_value, handler_error
\*                             what the handler answered
ToolFrame0 ==
    [pc |-> "idle", tool_name |-> None, tool_input |-> None, handler |-> None,
     result |-> None, raised |-> None, calls |-> <<>>,
     bound |-> None, known |-> {},
     handler_answer |-> "none", handler_value |-> None, handler_error |-> None]

\* _execute_tool returns r.
ToolReturn(f, r) == [f EXCEPT !.pc = "done", !.result = Some(r)]

\* _execute_tool raises an error of message m.
ToolRaise(f, m) == [f EXCEPT !.pc = "done", !.raised = Some(m)]

\* result = await handler(**tool_input): the handler is called and the
\* coroutine waits for it.
InvokeHandler(f) ==
    [f EXCEPT !.pc = "handler",
              !.calls = Append(@, [handler |-> Val(f.handler),
                                   input |-> Val(f.tool_input)])]

\* Mutant: no membership test; the lookup's KeyError is caught as any
\* handler error is.
EnterExecuteToolUnchecked(f, hs) ==
    IF ~DictHas(hs, Val(f.tool_name))
    THEN ToolReturn(f, FailureResult("KeyError"))
    ELSE InvokeHandler([f EXCEPT !.handler = Some(DictGet(hs, Val(f.tool_name)))])

\* _execute_tool up to the await of the handler.
EnterExecuteTool(f, hs) ==
    IF ~DictHas(hs, Val(f.tool_name))
    THEN ToolReturn(f, NotFoundResult(Val(f.tool_name), hs))
    ELSE InvokeHandler([f EXCEPT !.handler = Some(DictGet(hs, Val(f.tool_name)))])

\* The handler returned value.
OnHandlerReturn(f, value) == ToolReturn(f, SuccessResult(value))

\* Mutant: no except clause, the handler's error leaves _execute_tool.
OnHandlerRaisePropagates(f, message) == ToolRaise(f, message)

\* The handler raised an Exception of that message.
OnHandlerRaise(f, message) == ToolReturn(f, FailureResult(message))

\* The handler the register_tool calls rs last bound to name, if any.
LatestHandler(rs, name) ==
    LET idx == { i \in 1..Len(rs) : rs[i].name = name }
    IN  IF idx = {} THEN None
        ELSE Some(rs[CHOOSE i \in idx : \A j \in idx : j <= i].handler)

RegisteredNames(rs) == { rs[i].name : i \in 1..Len(rs) }

(***************************************************************************)
(* Embeddings, token counts and the provider factory                       *)
(***************************************************************************)
\* model_id: Optional[str] = "claude-sonnet-4-5"
DefaultModel == "claude-sonnet-4-5"

\* Longest list of texts embedded in one call.
MaxTexts == 3

\* A text of n characters.
Chars(n) == [i \in 1..n |-> "x"]

\* The texts callers count the tokens of.
Texts == {Chars(0), Chars(3), Chars(4), Chars(9)}

\* The lists of texts generate_embeddings is called with.
TextLists == UNION { [1..n -> {Chars(0), Chars(9)}] : n \in 0..MaxTexts }

\* [0.1] * 64, components in tenths.
EmbeddingDim == 64
PlaceholderComponent == 1
PlaceholderVector == [i \in 1..EmbeddingDim |-> PlaceholderComponent]

\* Mutant: one placeholder vector for the whole list.
PlaceholderEmbeddingsSingle(texts) == <<PlaceholderVector>>

\* [[0.1] * 64 for _ in texts]
PlaceholderEmbeddings(texts) == [i \in 1..Len(texts) |-> PlaceholderVector]

\* No generate_embeddings call made.
\*   warnings                  the logger.warning calls the call made
\*   remote_calls              the calls of the remote API it made
EmbedFrame0 ==
    [pc |-> "idle", texts |-> None, result |-> None, raised |-> None,
     warnings |-> 0, remote_calls |-> 0]

\* generate_embeddings(texts), which has no await: it runs in one stretch.
EmbeddingsCall(texts) ==
    [EmbedFrame0 EXCEPT !.pc = "done",
                        !.texts = Some(texts),
                        !.warnings = @ + 1,
                        !.result = Some(PlaceholderEmbeddings(texts))]

\* len(text) // 4
TokenCount(text) == Len(text) \div 4

\* No get_token_count call made.
CountFrame0 == [pc |-> "idle", text |-> None, result |-> None]

\* get_token_count(text)
TokenCountCall(text) ==
    [CountFrame0 EXCEPT !.pc = "done", !.text = Some(text),
                        !.result = Some(TokenCount(text))]

\* PROVIDERS, as the items of the dict.
PROVIDERS == <<[key |-> "anthropic", value |-> "AnthropicProvider"]>>

\* The names and keys get_provider is called with.
ProviderNames == {"anthropic", "openai", ""}
ProviderKeys == {None, Some(""), Some("sk-ant")}

\* The keyword arguments get_provider passes on: a keyword that is not
\* given maps to None, the config dict to the values of its keys.
FactoryConfigs ==
    { [max_retries |-> r, retry_delay |-> d] :
          r \in {None, Some(5)}, d \in {None, Some(3)} }
FactoryKwargs ==
    [model_id : {None, Some("claude-opus-4")},
     config : {None} \cup {Some(c) : c \in FactoryConfigs}]

\* AnthropicProvider(api_key=api_key, **kwargs): the fields of the new
\* instance.
NewAnthropicProvider(key, kwargs) ==
    LET cfg == IF kwargs.config = None
               THEN [max_retries |-> None, retry_delay |-> None]
               ELSE Val(kwargs.config)
    IN  [class |-> "AnthropicProvider",
         api_key |-> key,
         model_id |-> IF kwargs.model_id = None THEN DefaultModel
                      ELSE Val(kwargs.model_id),
         config |-> cfg,
         max_retries |-> IF cfg.max_retries = None THEN DefaultMaxRetries
                         ELSE Val(cfg.max_retries),
         retry_delay |-> IF cfg.retry_delay = None THEN DefaultRetryDelay
                         ELSE Val(cfg.retry_delay),
         cache_service |-> None,
         tools |-> <<>>,
         tool_handlers |-> <<>>]

\* No get_provider call made.
\*   constructed               the provider instances the call constructed
FactoryFrame0 ==
    [pc |-> "idle", name |-> None, api_key |-> None, kwargs |-> None,
     result |-> None, raised |-> None, constructed |-> 0]

\* Mutant: the name is looked up before the key is validated.
GetProviderCallNameFirst(name, key, kwargs) ==
    LET f == [FactoryFrame0 EXCEPT !.pc = "done", !.name = Some(name),
                                   !.api_key = key, !.kwargs = Some(kwargs)]
    IN  IF ~DictHas(PROVIDERS, name)
        THEN [f EXCEPT !.raised = Some([prefix |-> "Unknown provider: ", text |-> name])]
        ELSE IF ~TruthyStr(key)
        THEN [f EXCEPT !.raised = Some([prefix |-> "API key is required", text |-> ""])]
        ELSE [f EXCEPT !.constructed = @ + 1,
                       !.result = Some(NewAnthropicProvider(Val(key), kwargs))]

\* get_provider(name, api_key, **kwargs)
GetProviderCall(name, key, kwargs) ==
    LET f == [FactoryFrame0 EXCEPT !.pc = "done", !.name = Some(name),
                                   !.api_key = key, !.kwargs = Some(kwargs)]
    IN  IF ~TruthyStr(key)
        THEN [f EXCEPT !.raised = Some([prefix |-> "API key is required", text |-> ""])]
        ELSE IF ~DictHas(PROVIDERS, name)
        THEN [f EXCEPT !.raised = Some([prefix |-> "Unknown provider: ", text |-> name])]
        ELSE [f EXCEPT !.constructed = @ + 1,
                       !.result = Some(NewAnthropicProvider(Val(key), kwargs))]

\* No embeddings, token-count or factory call made.
AuxIdle ==
    /\ ecall = EmbedFrame0
    /\ ncall = CountFrame0
    /\ pcall = FactoryFrame0

(***************************************************************************)
(* Initial states: a constructed provider, an empty cache, no call made.   *)
(***************************************************************************)
Init ==
    /\ api_key \in {None, Some(""), Some("sk-ant")}
    /\ config \in [disable_caching : BOOLEAN, max_tokens : {None}, temperature : {None}]
    /\ max_retries \in 1..MaxRetriesBound
    /\ retry_delay \in RetryDelays
    /\ cache_service \in {None, Some("cache")}
    /\ store = [k \in CacheKeys |-> None]
    /\ frame = [t \in AllTasks |-> Frame0]
    /\ prev = [t \in AllTasks |-> None]
    /\ gate = Gate0
    /\ tools = <<>>
    /\ tool_handlers = <<>>
    /\ tcall = [t \in AllTasks |-> ToolFrame0]
    /\ regs = <<>>
    /\ model_id = DefaultModel
    /\ AuxIdle
    /\ workload = Requests

(***************************************************************************)
(* Actions                                                                 *)
(***************************************************************************)
Idle(t) == frame[t].pc \in {"idle", "done"}

\* Mutant: the backoff wait is a thread sleep (time.sleep).
HoldsThreadWhileSleeping(f) == f.pc = "sleep"

\* A call suspended at an await (the cache collaborator, the remote call,
\* await asyncio.sleep) has given the thread back to the event loop: no
\* call holds it between two actions.
HoldsThread(f) == FALSE

\* The event loop can run task t: no other task holds the thread.
Scheduled(t) == \A u \in AllTasks \ {t} : ~HoldsThread(frame[u])

\* The frame of a new call of op with request req.
NewCall(op, req) ==
    [Frame0 EXCEPT !.op = op, !.request = Some(req),
                   !.began_in_backoff = \E u \in AllTasks : frame[u].pc = "sleep"]

\* The summary kept of task t's last call once it makes a new one.
Remember(t) ==
    [prev EXCEPT ![t] =
        IF frame[t].pc = "done" THEN Some(Summary(frame[t])) ELSE @]

\* A caller invokes generate_completion(req).
GenerateCompletion(t) ==
    /\ Scheduled(t)
    /\ Idle(t)
    /\ \E req \in workload :
          frame' = [frame EXCEPT ![t] = Dispatch(NewCall("completion", req))]
    /\ prev' = Remember(t)
    /\ UNCHANGED <<workload, aux, gate, tooling, provider, store>>

\* return response.content if response else ""
GenerateResult(f) ==
    IF f.response # None THEN Some(Val(f.response).content) ELSE None

\* A caller invokes generate(prompt, max_tokens, temperature, **kwargs),
\* which awaits generate_completion on the request it builds.
Generate(t) ==
    /\ Scheduled(t)
    /\ Idle(t)
    /\ \E m \in GenerateMaxTokens, temp \in GenerateTemperatures,
          kw \in GenerateKwargs :
          frame' = [frame EXCEPT ![t] =
                       Dispatch([NewCall("completion",
                                         BuildGenerateRequest("p1", m, temp, kw))
                                    EXCEPT !.entry = "generate"])]
    /\ prev' = Remember(t)
    /\ UNCHANGED <<workload, aux, gate, tooling, provider, store>>

\* A caller invokes generate_chat_completion(req).
GenerateChatCompletion(t) ==
    /\ Scheduled(t)
    /\ Idle(t)
    /\ \E req \in workload :
          frame' = [frame EXCEPT ![t] = Dispatch(NewCall("chat_completion", req))]
    /\ prev' = Remember(t)
    /\ UNCHANGED <<workload, aux, gate, tooling, provider, store>>

\* The cache collaborator answers get_cached_response with what it holds.
\* On a hit the dispatcher sets is_cached on the object it was handed
\* (base.py 68, 115): when that is the object the collaborator holds, the
\* entry and every caller that has this object see the flag.
CacheGetReturn(t) ==
    /\ Scheduled(t)
    /\ frame[t].pc = "cache_get"
    /\ LET k == Val(frame[t].get_key)
           cached == store[k]
           shared == cached # None /\ cache_service = Some("memory")
       IN  /\ frame' =
                 IF cached # None
                 THEN HeldByFrames(t, HoldFrame(OnCacheHit([frame[t] EXCEPT
                                                               !.get_answer = "hit"],
                                                           Val(cached)), k),
                                   k, "mark")
                 ELSE [frame EXCEPT ![t] = OnCacheMiss([@ EXCEPT !.get_answer = "miss"])]
           /\ store' = IF shared
                       THEN [store EXCEPT ![k] = Some([Val(@) EXCEPT !.is_cached = TRUE])]
                       ELSE store
           /\ prev' = IF shared THEN HeldByCallers(k, "mark") ELSE prev
    /\ UNCHANGED <<workload, aux, gate, tooling, provider>>

\* The cache collaborator had dropped the entry (expiry, eviction): it
\* answers None.
CacheGetExpired(t) ==
    /\ Scheduled(t)
    /\ frame[t].pc = "cache_get"
    /\ store[Val(frame[t].get_key)] # None
    /\ store' = [store EXCEPT ![Val(frame[t].get_key)] = None]
    /\ frame' = HeldByFrames(t, OnCacheMiss([frame[t] EXCEPT !.get_answer = "expired"]),
                             Val(frame[t].get_key), "drop")
    /\ prev' = HeldByCallers(Val(frame[t].get_key), "drop")
    /\ UNCHANGED <<workload, aux, gate, tooling, provider>>

\* get_cached_response fails.
CacheGetRaise(t) ==
    /\ Scheduled(t)
    /\ frame[t].pc = "cache_get"
    /\ frame' = [frame EXCEPT ![t] = OnCacheGetError([@ EXCEPT !.get_answer = "error"], CacheError)]
    /\ UNCHANGED <<workload, aux, gate, tooling, provider, store, prev>>

\* The remote call of the current attempt returns a message.
RemoteReturn(t) ==
    /\ Scheduled(t)
    /\ frame[t].pc = "remote"
    /\ \E msg \in RemoteMessages :
          frame' = [frame EXCEPT ![t] =
                       RetryReturn([@ EXCEPT !.replies = Append(@, "ok"),
                                              !.remote_value = Some(msg)],
                                   msg)]
    /\ UNCHANGED <<workload, aux, gate, tooling, provider, store, prev>>

\* The remote call of the current attempt raises.
RemoteRaise(t) ==
    /\ Scheduled(t)
    /\ frame[t].pc = "remote"
    /\ \E cls \in RemoteErrorClasses :
          LET e == Err(cls, Len(frame[t].replies))
          IN  frame' = [frame EXCEPT ![t] =
                           OnRemoteError([@ EXCEPT !.replies = Append(@, ReplyKind(cls)),
                                                    !.remote_error = Some(e)],
                                         e)]
    /\ UNCHANGED <<workload, aux, gate, tooling, provider, store, prev>>

\* Mutant: the loop keeps its backoff on the provider: each wait doubles
\* self.retry_delay in place.
SleepDoneDoublesDelay(t) ==
    /\ Scheduled(t)
    /\ frame[t].pc = "sleep"
    /\ frame' = [frame EXCEPT ![t] = CallRemote(@, frame[t].attempt + 1)]
    /\ retry_delay' = retry_delay * 2
    /\ UNCHANGED <<workload, aux, gate, tooling, store, prev,
                   api_key, model_id, config, max_retries, cache_service>>

\* asyncio.sleep(wait_time) is over: the loop goes round again.
SleepDone(t) ==
    /\ Scheduled(t)
    /\ frame[t].pc = "sleep"
    /\ frame' = [frame EXCEPT ![t] = CallRemote(@, frame[t].attempt + 1)]
    /\ UNCHANGED <<workload, aux, gate, tooling, provider, store, prev>>

\* The cache collaborator stores the response and cache_response returns.
CachePutReturn(t) ==
    /\ Scheduled(t)
    /\ frame[t].pc = "cache_put"
    /\ store' = [store EXCEPT ![Val(frame[t].put_key)] = frame[t].impl_response]
    /\ frame' = HeldByFrames(t, HoldFrame(OnCachePutDone([frame[t] EXCEPT
                                                              !.put_answer = "ok"]),
                                          Val(frame[t].put_key)),
                             Val(frame[t].put_key), "drop")
    /\ prev' = HeldByCallers(Val(frame[t].put_key), "drop")
    /\ UNCHANGED <<workload, aux, gate, tooling, provider>>

\* cache_response fails; nothing is stored.
CachePutRaise(t) ==
    /\ Scheduled(t)
    /\ frame[t].pc = "cache_put"
    /\ frame' = [frame EXCEPT ![t] = OnCachePutError([@ EXCEPT !.put_answer = "error"], CacheError)]
    /\ UNCHANGED <<workload, aux, gate, tooling, provider, store, prev>>

\* The caller cancels the task while its call is suspended at an await.
\* A cancelled cache write may or may not have reached the store.
Cancel(t) ==
    /\ Scheduled(t)
    /\ frame[t].pc \in {"cache_get", "remote", "sleep", "cache_put"}
    /\ LET cancelled == OnCancel([frame[t] EXCEPT
                                     !.cancelled_at = frame[t].pc,
                                     !.cancelled_beside =
                                         \E u \in AllTasks \ {t} : ~Idle(u)])
       IN  \/ /\ frame' = [frame EXCEPT ![t] = cancelled]
              /\ UNCHANGED <<store, prev>>
           \/ /\ frame[t].pc = "cache_put"
              /\ store' = [store EXCEPT ![Val(frame[t].put_key)] = frame[t].impl_response]
              /\ frame' = HeldByFrames(t, HoldFrame(cancelled, Val(frame[t].put_key)),
                                       Val(frame[t].put_key), "drop")
              /\ prev' = HeldByCallers(Val(frame[t].put_key), "drop")
    /\ UNCHANGED <<workload, aux, gate, tooling, provider>>

Next ==
    \E t \in Tasks :
        \/ GenerateCompletion(t)
        \/ GenerateChatCompletion(t)
        \/ CacheGetReturn(t)
        \/ CacheGetExpired(t)
        \/ CacheGetRaise(t)
        \/ RemoteReturn(t)
        \/ RemoteRaise(t)
        \/ SleepDone(t)
        \/ CachePutReturn(t)
        \/ CachePutRaise(t)

Spec == Init /\ [][Next]_vars

(***************************************************************************)
(* The dispatcher with a cache collaborator of either kind: one that hands *)
(* back copies of what it holds and one that hands back the objects it     *)
(* holds.  The provider makes one attempt per call.                        *)
(***************************************************************************)
InitCache ==
    /\ api_key = Some("sk-ant")
    /\ config \in [disable_caching : BOOLEAN, max_tokens : {None}, temperature : {None}]
    /\ max_retries = 1
    /\ retry_delay = DefaultRetryDelay
    /\ cache_service \in {Some("cache"), Some("memory")}
    /\ store = [k \in CacheKeys |-> None]
    /\ frame = [t \in AllTasks |-> Frame0]
    /\ prev = [t \in AllTasks |-> None]
    /\ gate = Gate0
    /\ tools = <<>>
    /\ tool_handlers = <<>>
    /\ tcall = [t \in AllTasks |-> ToolFrame0]
    /\ regs = <<>>
    /\ model_id = DefaultModel
    /\ AuxIdle
    /\ workload = Requests

NextCache ==
    \E t \in Tasks :
        \/ GenerateCompletion(t)
        \/ GenerateChatCompletion(t)
        \/ CacheGetReturn(t)
        \/ CacheGetExpired(t)
        \/ CacheGetRaise(t)
        \/ RemoteReturn(t)
        \/ RemoteRaise(t)
        \/ CachePutReturn(t)
        \/ CachePutRaise(t)

SpecCache == InitCache /\ [][NextCache]_vars

(***************************************************************************)
(* The tool registry of one provider: callers register tools and execute   *)
(* them; a handler is awaited, so registrations may come while it runs.    *)
(***************************************************************************)
InitTools ==
    /\ api_key = Some("sk-ant")
    /\ config = NoConfig
    /\ max_retries = DefaultMaxRetries
    /\ retry_delay = DefaultRetryDelay
    /\ cache_service = None
    /\ store = [k \in CacheKeys |-> None]
    /\ frame = [t \in AllTasks |-> Frame0]
    /\ prev = [t \in AllTasks |-> None]
    /\ gate = Gate0
    /\ tools = <<>>
    /\ tool_handlers = <<>>
    /\ tcall = [t \in AllTasks |-> ToolFrame0]
    /\ regs = <<>>
    /\ model_id = DefaultModel
    /\ AuxIdle
    /\ workload = Requests

\* Mutant: the registry is read through by the executions in flight: a
\* registration under the name a suspended execution runs replaces the
\* handler that execution is running.
RegisterToolRebindsRunning ==
    /\ Len(regs) < MaxRegistrations
    /\ \E definition \in ToolDefinitions, handler \in Handlers :
          /\ tools' = ToolsAfterRegister(tools, definition)
          /\ tool_handlers' = HandlersAfterRegister(tool_handlers, definition, handler)
          /\ regs' = Append(regs, [name |-> definition.name, handler |-> handler])
          /\ tcall' = [t \in AllTasks |->
                          IF /\ tcall[t].pc = "handler"
                             /\ tcall[t].tool_name = Some(definition.name)
                          THEN [tcall[t] EXCEPT !.handler = Some(handler)]
                          ELSE tcall[t]]
    /\ UNCHANGED <<workload, aux, gate, provider, store, frame, prev>>

\* A caller invokes register_tool(definition, handler).
RegisterTool ==
    /\ Len(regs) < MaxRegistrations
    /\ \E definition \in ToolDefinitions, handler \in Handlers :
          /\ tools' = ToolsAfterRegister(tools, definition)
          /\ tool_handlers' = HandlersAfterRegister(tool_handlers, definition, handler)
          /\ regs' = Append(regs, [name |-> definition.name, handler |-> handler])
    /\ UNCHANGED <<workload, aux, gate, provider, store, frame, prev, tcall>>

\* The frame of a new _execute_tool(tool_name, tool_input) call.
NewToolCall(tool_name, tool_input) ==
    [ToolFrame0 EXCEPT !.tool_name = Some(tool_name),
                       !.tool_input = Some(tool_input),
                       !.bound = LatestHandler(regs, tool_name),
                       !.known = RegisteredNames(regs)]

\* A caller invokes _execute_tool(tool_name, tool_input).
ExecuteTool(t) ==
    /\ tcall[t].pc \in {"idle", "done"}
    /\ \E tool_name \in ToolNames, tool_input \in ToolInputs :
          tcall' = [tcall EXCEPT ![t] =
                       EnterExecuteTool(NewToolCall(tool_name, tool_input),
                                        tool_handlers)]
    /\ UNCHANGED <<workload, aux, gate, provider, store, frame, prev, tools, tool_handlers, regs>>

\* The awaited handler returns a value.
HandlerReturn(t) ==
    /\ tcall[t].pc = "handler"
    /\ \E value \in ToolValues :
          tcall' = [tcall EXCEPT ![t] =
                       OnHandlerReturn([@ EXCEPT !.handler_answer = "return",
                                                 !.handler_value = Some(value)],
                                       value)]
    /\ UNCHANGED <<workload, aux, gate, provider, store, frame, prev, tools, tool_handlers, regs>>

\* The awaited handler raises an Exception.
HandlerRaise(t) ==
    /\ tcall[t].pc = "handler"
    /\ \E message \in HandlerErrors :
          tcall' = [tcall EXCEPT ![t] =
                       OnHandlerRaise([@ EXCEPT !.handler_answer = "raise",
                                                !.handler_error = Some(message)],
                                      message)]
    /\ UNCHANGED <<workload, aux, gate, provider, store, frame, prev, tools, tool_handlers, regs>>

NextTools ==
    \/ RegisterTool
    \/ \E t \in Tasks :
          \/ ExecuteTool(t)
          \/ HandlerReturn(t)
          \/ HandlerRaise(t)

SpecTools == InitTools /\ [][NextTools]_vars

\* Two callers execute tools on the shared provider, one call each, while
\* tools are registered.
NextToolsConc ==
    \/ RegisterTool
    \/ \E t \in AllTasks :
          \/ tcall[t].pc = "idle" /\ ExecuteTool(t)
          \/ HandlerReturn(t)
          \/ HandlerRaise(t)

SpecToolsConc == InitTools /\ [][NextToolsConc]_vars

(***************************************************************************)
(* Tools are registered on a provider whose caller makes one generation    *)
(* call: no cache, one attempt.                                            *)
(***************************************************************************)
InitRegistry ==
    /\ api_key = Some("sk-ant")
    /\ config = NoConfig
    /\ max_retries = 1
    /\ retry_delay = DefaultRetryDelay
    /\ cache_service = None
    /\ store = [k \in CacheKeys |-> None]
    /\ frame = [t \in AllTasks |-> Frame0]
    /\ prev = [t \in AllTasks |-> None]
    /\ gate = Gate0
    /\ tools = <<>>
    /\ tool_handlers = <<>>
    /\ tcall = [t \in AllTasks |-> ToolFrame0]
    /\ regs = <<>>
    /\ model_id = DefaultModel
    /\ AuxIdle
    /\ workload = { [NoRequest EXCEPT !.prompt = Some("p1"),
                                      !.messages = Some(<<[role |-> "system", content |-> "s1"],
                                                          [role |-> "user", content |-> "u1"]>>)] }

NextRegistry ==
    \/ RegisterTool
    \/ \E t \in Tasks :
          \/ frame[t].pc = "idle" /\ GenerateCompletion(t)
          \/ frame[t].pc = "idle" /\ GenerateChatCompletion(t)
          \/ RemoteReturn(t)
          \/ RemoteRaise(t)

SpecRegistry == InitRegistry /\ [][NextRegistry]_vars

(***************************************************************************)
(* The retry loop under every max_retries the configuration can hold,      *)
(* config.get("max_retries", 3) being taken as it is: no cache, one         *)
(* request.                                                                *)
(***************************************************************************)
InitRetry ==
    /\ api_key = Some("sk-ant")
    /\ config = NoConfig
    /\ max_retries \in -1..MaxRetriesBound
    /\ retry_delay = DefaultRetryDelay
    /\ cache_service = None
    /\ store = [k \in CacheKeys |-> None]
    /\ frame = [t \in AllTasks |-> Frame0]
    /\ prev = [t \in AllTasks |-> None]
    /\ gate = Gate0
    /\ tools = <<>>
    /\ tool_handlers = <<>>
    /\ tcall = [t \in AllTasks |-> ToolFrame0]
    /\ regs = <<>>
    /\ model_id = DefaultModel
    /\ AuxIdle
    /\ workload = { [NoRequest EXCEPT !.prompt = Some("p1")] }

NextRetry ==
    \E t \in Tasks :
        \/ GenerateCompletion(t)
        \/ RemoteReturn(t)
        \/ RemoteRaise(t)
        \/ SleepDone(t)

SpecRetry == InitRetry /\ [][NextRetry]_vars

\* The remote call of every attempt answers and every asyncio.sleep ends.
AttemptsAndWaitsEnd ==
    \A t \in Tasks :
        /\ WF_vars(RemoteReturn(t) \/ RemoteRaise(t))
        /\ WF_vars(SleepDone(t))

SpecRetryLive == SpecRetry /\ AttemptsAndWaitsEnd

(***************************************************************************)
(* The generate convenience method beside generate_completion: one call on *)
(* a provider with a cache and a configured or default temperature.        *)
(***************************************************************************)
InitGenerate ==
    /\ api_key = Some("sk-ant")
    /\ config \in [disable_caching : {FALSE}, max_tokens : {None},
                    temperature : {None, Some(0)}]
    /\ max_retries = 1
    /\ retry_delay = DefaultRetryDelay
    /\ cache_service = Some("cache")
    /\ store = [k \in CacheKeys |-> None]
    /\ frame = [t \in AllTasks |-> Frame0]
    /\ prev = [t \in AllTasks |-> None]
    /\ gate = Gate0
    /\ tools = <<>>
    /\ tool_handlers = <<>>
    /\ tcall = [t \in AllTasks |-> ToolFrame0]
    /\ regs = <<>>
    /\ model_id = DefaultModel
    /\ AuxIdle
    /\ workload = { [NoRequest EXCEPT !.prompt = Some("p1")] }

NextGenerate ==
    \E t \in Tasks :
        \/ frame[t].pc = "idle" /\ Generate(t)
        \/ frame[t].pc = "idle" /\ GenerateCompletion(t)
        \/ CacheGetReturn(t)
        \/ CacheGetRaise(t)
        \/ RemoteReturn(t)
        \/ RemoteRaise(t)
        \/ CachePutReturn(t)
        \/ CachePutRaise(t)

SpecGenerate == InitGenerate /\ [][NextGenerate]_vars

(***************************************************************************)
(* The calls that never reach the remote API: embeddings, token counts and *)
(* the provider factory.                                                   *)
(***************************************************************************)
\* A caller invokes generate_embeddings(texts).
GenerateEmbeddings ==
    /\ \E texts \in TextLists : ecall' = EmbeddingsCall(texts)
    /\ UNCHANGED <<workload, gate, tooling, provider, store, frame, prev, ncall, pcall>>

\* A caller invokes get_token_count(text).
GetTokenCount ==
    /\ \E text \in Texts : ncall' = TokenCountCall(text)
    /\ UNCHANGED <<workload, gate, tooling, provider, store, frame, prev, ecall, pcall>>

\* A caller invokes get_provider(name, api_key, **kwargs).
GetProvider ==
    /\ \E name \in ProviderNames, key \in ProviderKeys, kwargs \in FactoryKwargs :
          pcall' = GetProviderCall(name, key, kwargs)
    /\ UNCHANGED <<workload, gate, tooling, provider, store, frame, prev, ecall, ncall>>

NextAux ==
    \/ GenerateEmbeddings
    \/ GetTokenCount
    \/ GetProvider

SpecAux == InitTools /\ [][NextAux]_vars

(***************************************************************************)
(* Every kind of request on one provider with a tool registered: a         *)
(* generation call, a tool execution, embeddings and token counts,         *)
(* interleaved at their suspension points.                                 *)
(***************************************************************************)
InitShared ==
    /\ api_key = Some("sk-ant")
    /\ config = NoConfig
    /\ max_retries = 2
    /\ retry_delay = DefaultRetryDelay
    /\ cache_service = None
    /\ store = [k \in CacheKeys |-> None]
    /\ frame = [t \in AllTasks |-> Frame0]
    /\ prev = [t \in AllTasks |-> None]
    /\ gate = Gate0
    /\ LET definition == [name |-> "calculator", description |-> "Calculator"]
       IN  /\ tools = ToolsAfterRegister(<<>>, definition)
           /\ tool_handlers = HandlersAfterRegister(<<>>, definition, "h1")
           /\ regs = <<[name |-> definition.name, handler |-> "h1"]>>
    /\ tcall = [t \in AllTasks |-> ToolFrame0]
    /\ model_id = DefaultModel
    /\ AuxIdle
    /\ workload = { [NoRequest EXCEPT !.prompt = Some("p1")] }

NextShared ==
    \/ GenerateEmbeddings
    \/ GetTokenCount
    \/ \E t \in Tasks :
          \/ frame[t].pc = "idle" /\ GenerateCompletion(t)
          \/ frame[t].pc = "idle" /\ GenerateChatCompletion(t)
          \/ RemoteReturn(t)
          \/ RemoteRaise(t)
          \/ SleepDone(t)
          \/ tcall[t].pc = "idle" /\ ExecuteTool(t)
          \/ HandlerReturn(t)
          \/ HandlerRaise(t)

SpecShared == InitShared /\ [][NextShared]_vars

(***************************************************************************)
(* Two callers share one provider with a cache collaborator; each submits   *)
(* the same request once, concurrently, and may cancel its call.           *)
(***************************************************************************)
InitConc ==
    /\ api_key = Some("sk-ant")
    /\ config = NoConfig
    /\ max_retries = 2
    /\ retry_delay = DefaultRetryDelay
    /\ cache_service = Some("cache")
    /\ store = [k \in CacheKeys |-> None]
    /\ frame = [t \in AllTasks |-> Frame0]
    /\ prev = [t \in AllTasks |-> None]
    /\ gate = Gate0
    /\ tools = <<>>
    /\ tool_handlers = <<>>
    /\ tcall = [t \in AllTasks |-> ToolFrame0]
    /\ regs = <<>>
    /\ model_id = DefaultModel
    /\ AuxIdle
    /\ workload = { [NoRequest EXCEPT !.prompt = Some("p1")] }

NextConc ==
    \E t \in AllTasks :
        \/ frame[t].pc = "idle" /\ GenerateCompletion(t)
        \/ frame[t].pc = "idle" /\ GenerateChatCompletion(t)
        \/ CacheGetReturn(t)
        \/ CacheGetExpired(t)
        \/ CacheGetRaise(t)
        \/ RemoteReturn(t)
        \/ RemoteRaise(t)
        \/ SleepDone(t)
        \/ CachePutReturn(t)
        \/ CachePutRaise(t)
        \/ Cancel(t)

SpecConc == InitConc /\ [][NextConc]_vars

(***************************************************************************)
(* The payload and the response of one request: a provider without cache   *)
(* collaborator, configured to make a single attempt, serves one request   *)
(* of PayloadRequests through either operation.                            *)
(***************************************************************************)
InitPayload ==
    /\ api_key = Some("sk-ant")
    /\ config \in PayloadConfigs
    /\ max_retries = 1
    /\ retry_delay = DefaultRetryDelay
    /\ cache_service = None
    /\ store = [k \in CacheKeys |-> None]
    /\ frame = [t \in AllTasks |-> Frame0]
    /\ prev = [t \in AllTasks |-> None]
    /\ gate = Gate0
    /\ tools = <<>>
    /\ tool_handlers = <<>>
    /\ tcall = [t \in AllTasks |-> ToolFrame0]
    /\ regs = <<>>
    /\ model_id = DefaultModel
    /\ AuxIdle
    /\ workload \in { {r} : r \in PayloadRequests }

NextPayload ==
    \E t \in Tasks :
        \/ GenerateCompletion(t)
        \/ GenerateChatCompletion(t)
        \/ RemoteReturn(t)
        \/ RemoteRaise(t)

SpecPayload == InitPayload /\ [][NextPayload]_vars

(***************************************************************************)
(* _is_cacheable on its own: a provider of either configuration is handed  *)
(* one request and decides.                                                *)
(***************************************************************************)
InitGate ==
    /\ api_key = Some("sk-ant")
    /\ config \in [disable_caching : BOOLEAN, max_tokens : {None}, temperature : {None}]
    /\ max_retries = DefaultMaxRetries
    /\ retry_delay = DefaultRetryDelay
    /\ cache_service \in {None, Some("cache")}
    /\ store = [k \in CacheKeys |-> None]
    /\ frame = [t \in AllTasks |-> Frame0]
    /\ prev = [t \in AllTasks |-> None]
    /\ gate \in [request : {Some(r) : r \in GateRequests}, result : {None}]
    /\ tools = <<>>
    /\ tool_handlers = <<>>
    /\ tcall = [t \in AllTasks |-> ToolFrame0]
    /\ regs = <<>>
    /\ model_id = DefaultModel
    /\ AuxIdle
    /\ workload = Requests

\* self._is_cacheable(request) returns.
CallIsCacheable ==
    /\ gate.request # None
    /\ gate.result = None
    /\ gate' = [gate EXCEPT !.result = Some(IsCacheable(Val(gate.request), config))]
    /\ UNCHANGED <<workload, aux, tooling, provider, store, frame, prev>>

NextGate == CallIsCacheable

SpecGate == InitGate /\ [][NextGate]_vars

(***************************************************************************)
(* Properties of the Retry Executor (_retry_with_backoff)                  *)
(***************************************************************************)
\* The first n replies of the remote call were all transient failures.
AllTransient(f, n) ==
    /\ n <= Len(f.replies)
    /\ \A i \in 1..n : f.replies[i] = "transient"

\* The remote call failed transiently N-1 times and then succeeded.
SucceededOnNth(f, N) ==
    /\ Len(f.replies) = N
    /\ AllTransient(f, N - 1)
    /\ f.replies[N] = "ok"

\* C1: for every N with 1 <= N <= max_retries, when the remote call raises
\* a retryable error on attempts 1..N-1 and succeeds on attempt N,
\* _retry_with_backoff returns that very result after exactly N invocations
\* of the operation; in particular it has not given up after fewer than
\* max_retries retryable failures.
C1_RetryReturnsFirstSuccess ==
    \A t \in Tasks :
        LET f == frame[t]
        IN  /\ \A N \in 1..max_retries :
                  SucceededOnNth(f, N) =>
                      /\ f.retry_value = f.remote_value
                      /\ f.retry_error = None
                      /\ f.invocations = N
            /\ \A k \in 0..(max_retries - 1) :
                  (Len(f.replies) = k /\ AllTransient(f, k)) =>
                      f.retry_error = None

C1_Witness ==
    \E t \in Tasks :
        /\ max_retries = 4
        /\ SucceededOnNth(frame[t], 3)
        /\ frame[t].retry_value # None
        /\ frame[t].invocations = 3

\* C2: when the remote call raises a retryable error on max_retries
\* consecutive attempts, _retry_with_backoff has invoked it exactly
\* max_retries times and raises the error of the last attempt itself.
C2_ExhaustedRaisesLastError ==
    \A t \in Tasks :
        LET f == frame[t]
        IN  (Len(f.replies) = max_retries /\ AllTransient(f, max_retries)) =>
                /\ f.invocations = max_retries
                /\ f.retry_value = None
                /\ f.retry_error = f.remote_error
                /\ Val(f.retry_error).at = max_retries - 1
                /\ Val(f.retry_error).cause = "none"

C2_Witness ==
    \E t \in Tasks :
        /\ max_retries = 3
        /\ AllTransient(frame[t], 3)
        /\ frame[t].retry_error = Some(Err("APITimeoutError", 2))

\* C3: when an attempt of the remote call raises an error that is not
\* rate-limit, timeout or connection failure, _retry_with_backoff raises
\* that error at once: the failing attempt is the last invocation and no
\* wait follows it, whatever its index.
C3_PermanentErrorRaisedAtOnce ==
    \A t \in Tasks :
        LET f == frame[t]
        IN  \A i \in 1..Len(f.replies) :
                f.replies[i] = "permanent" =>
                    /\ Len(f.replies) = i
                    /\ f.invocations = i
                    /\ Len(f.waits) = i - 1
                    /\ f.pc \notin {"remote", "sleep"}
                    /\ f.retry_error = f.remote_error
                    /\ Val(f.retry_error).at = i - 1

C3_Witness ==
    \E t \in Tasks :
        /\ frame[t].replies = <<"transient", "transient", "permanent">>
        /\ frame[t].retry_error = Some(Err("APIStatusError", 2))

\* The number of transient failures among the replies.
RECURSIVE TransientCount(_)
TransientCount(replies) ==
    IF replies = <<>>
    THEN 0
    ELSE (IF replies[1] = "transient" THEN 1 ELSE 0) + TransientCount(Tail(replies))

\* C4: the wait after the retryable failure of attempt i (0-indexed,
\* i < max_retries - 1) is exactly retry_delay * 2^i and precedes attempt
\* i + 1; no wait follows the last attempt, so a call waits at most
\* max_retries - 1 times, and the successive waits never decrease.
C4_BackoffSchedule ==
    \A t \in Tasks :
        LET f == frame[t]
            n == TransientCount(f.replies)
        IN  /\ \A i \in 1..Len(f.waits) : f.waits[i] = retry_delay * (2 ^ (i - 1))
            /\ Len(f.waits) <= max_retries - 1
            /\ Len(f.waits) = (IF n < max_retries - 1 THEN n ELSE max_retries - 1)
            /\ \A i \in 1..(Len(f.waits) - 1) : f.waits[i] <= f.waits[i + 1]
            /\ f.pc = "sleep" => f.invocations = Len(f.waits)
            /\ f.pc = "remote" => f.invocations = Len(f.waits) + 1

C4_Witness ==
    \E t \in Tasks :
        /\ retry_delay = 3
        /\ frame[t].pc = "remote"
        /\ frame[t].attempt = 3
        /\ frame[t].waits = <<3, 6, 12>>

(***************************************************************************)
(* Properties of the Cache-Aware Dispatcher (generate_completion,          *)
(* generate_chat_completion)                                               *)
(***************************************************************************)
\* Task t's last two calls were the same operation on the same cacheable
\* request, the first returned a freshly generated response, and the cache
\* collaborator answered the second call's read from what it had kept.
SameRequestTwice(t) ==
    LET f == frame[t]
        p == prev[t]
    IN  /\ f.pc = "done"
        /\ p # None
        /\ Val(p).op = f.op
        /\ Val(p).request = Val(f.request)
        /\ UseCache(Val(f.request))
        /\ Val(p).response # None
        /\ Val(p).impl_calls = 1
        /\ f.get_answer \notin {"expired", "error"}

\* C5: two calls in sequence of the same operation with an identical
\* cacheable request, against a cache that keeps what was stored, invoke
\* the _impl method once in total; the second call is a hit that returns
\* the first call's content with the cached flag true, without invoking the
\* provider or the remote call.
C5_CacheRoundTrip ==
    \A t \in Tasks :
        SameRequestTwice(t) =>
            LET f == frame[t]
                p == Val(prev[t])
            IN  /\ f.get_answer = "hit"
                /\ p.impl_calls + f.impl_calls = 1
                /\ f.impl_calls = 0
                /\ f.invocations = 0
                /\ f.cache_writes = 0
                /\ f.error = None
                /\ f.response # None
                /\ Val(f.response).is_cached
                /\ Val(f.response).content = Val(p.response).content

C5_Witness ==
    \E t \in Tasks :
        /\ SameRequestTwice(t)
        /\ frame[t].op = "chat_completion"
        /\ Val(prev[t]).impl_calls = 1
        /\ frame[t].response = Some([BuildResponse([content |-> "c2", usage |-> RemoteUsage["c2"]])
                                   EXCEPT !.is_cached = TRUE])

\* The call of task t looked the request up, the cache answered None, the
\* _impl method returned a response and the call returned normally.
MissThenGenerated(f) ==
    /\ f.pc = "done"
    /\ f.get_answer \in {"miss", "expired"}
    /\ f.impl_response # None
    /\ f.error = None

\* C6: on a cache miss for a cacheable request with a cache attached, the
\* dispatcher invokes the _impl method once, stores the fresh response
\* under the (request, provider name) key it looked up, and returns that
\* response with its cached flag false.
C6_MissGeneratesAndStores ==
    \A t \in Tasks :
        LET f == frame[t]
        IN  MissThenGenerated(f) =>
                /\ f.impl_calls = 1
                /\ f.cache_reads = 1
                /\ f.cache_writes = 1
                /\ f.get_key = Some(CacheKey(Val(f.request), ANTHROPIC))
                /\ f.put_key = f.get_key
                /\ store[Val(f.put_key)] = f.impl_response
                /\ f.response = f.impl_response
                /\ ~Val(f.response).is_cached

C6_Witness ==
    \E t \in Tasks :
        /\ MissThenGenerated(frame[t])
        /\ frame[t].op = "completion"
        /\ frame[t].put_answer = "ok"
        /\ store[Val(frame[t].get_key)] = Some(BuildResponse([content |-> "c1", usage |-> RemoteUsage["c1"]]))

\* C7 as stated: every invocation performs exactly one cache read, at most
\* one cache write and at most one invocation of the _impl method.
C7_ExactlyOneCacheRead ==
    \A t \in Tasks :
        LET f == frame[t]
        IN  f.pc = "done" =>
                /\ f.cache_reads = 1
                /\ f.cache_writes <= 1
                /\ f.impl_calls <= 1

\* C7 amended: every invocation performs at most one cache read (exactly
\* one when a cache is attached and the request is cacheable, none
\* otherwise), at most one cache write and at most one invocation of the
\* _impl method.
C7_AtMostOneCacheRead ==
    \A t \in Tasks :
        LET f == frame[t]
        IN  f.pc # "idle" =>
                /\ f.cache_reads = (IF UseCache(Val(f.request)) THEN 1 ELSE 0)
                /\ f.cache_writes <= 1
                /\ f.impl_calls <= 1
                /\ f.cache_writes = 1 => f.cache_reads = 1 /\ f.impl_calls = 1

C7_Witness ==
    \E t \in Tasks :
        /\ frame[t].pc = "done"
        /\ cache_service # None
        /\ ~IsCacheable(Val(frame[t].request), config)
        /\ frame[t].cache_reads = 0
        /\ frame[t].impl_calls = 1
        /\ frame[t].response # None

\* C8: when get_cached_response fails, the dispatcher treats it as a miss:
\* it invokes the _impl method and the call ends as the generation ends,
\* not with the cache's error.
C8_CacheReadFailureIsMiss ==
    \A t \in Tasks :
        LET f == frame[t]
        IN  (f.pc = "done" /\ f.get_answer = "error") =>
                /\ f.impl_calls = 1
                /\ f.error = f.impl_error

\* C9: when cache_response fails after a successful generation, the
\* dispatcher still returns the freshly generated response.
C9_CacheWriteFailureStillReturns ==
    \A t \in Tasks :
        LET f == frame[t]
        IN  (f.pc = "done" /\ f.put_answer = "error") =>
                /\ f.error = None
                /\ f.response = f.impl_response

\* C10: when the _impl method raises, the dispatcher delivers exactly that
\* error to the caller and makes no cache write, so the failed generation
\* leaves no entry in the cache.
C10_ImplErrorPropagates ==
    \A t \in Tasks :
        LET f == frame[t]
        IN  f.impl_error # None =>
                /\ f.pc = "done"
                /\ f.error = f.impl_error
                /\ f.response = None
                /\ f.cache_writes = 0
                /\ f.put_key = None
                /\ UseCache(Val(f.request)) =>
                       store[CacheKey(Val(f.request), ANTHROPIC)] = None

C10_Witness ==
    \E t \in Tasks :
        /\ frame[t].get_answer = "miss"
        /\ frame[t].impl_calls = 1
        /\ frame[t].impl_error = Some(WrapError(Err("APIConnectionError", 1)))
        /\ frame[t].error = frame[t].impl_error

(***************************************************************************)
(* Properties of what the caller receives when the retries run out         *)
(***************************************************************************)
\* C11: when every one of the max_retries attempts fails with the same
\* transient kind (rate-limit, timeout or connection failure), the call
\* ends with an error of that transient kind: the caller can tell
\* rate-limit exhaustion from a configuration error or a permanent API
\* rejection by the class of the error it receives.
C11_ExhaustedKeepsTransientKind ==
    \A t \in Tasks :
        LET f == frame[t]
        IN  (/\ f.pc = "done"
             /\ Len(f.replies) = max_retries
             /\ AllTransient(f, max_retries)) =>
                /\ f.error # None
                /\ Val(f.error).cls \in TransientClasses
                /\ Val(f.error).cls = Val(f.remote_error).cls

(***************************************************************************)
(* Properties of the Cacheability Policy (_is_cacheable)                   *)
(***************************************************************************)
\* C12: _is_cacheable returns false for every request whose temperature
\* is present and greater than 0, whatever additional_params holds and
\* whatever the provider configuration is.
C12_PositiveTemperatureNotCacheable ==
    LET request == Val(gate.request)
    IN  (/\ gate.result # None
         /\ request.temperature # None
         /\ Val(request.temperature) > 0) =>
            gate.result = Some(FALSE)

C12_Witness ==
    /\ gate.result = Some(FALSE)
    /\ Val(gate.request).temperature = Some(1)
    /\ Val(gate.request).additional_params = NoParams
    /\ ~config.disable_caching

\* C13: _is_cacheable returns false for every request whose
\* additional_params has stream, user or request_id as a key, whatever the
\* value bound to the key (false and empty included) and whatever the
\* temperature is.
C13_PerCallKeyNotCacheable ==
    LET p == Val(gate.request).additional_params
    IN  (/\ gate.result # None
         /\ \/ p.stream # None
            \/ p.user # None
            \/ p.request_id # None) =>
            gate.result = Some(FALSE)

C13_Witness ==
    /\ gate.result = Some(FALSE)
    /\ Val(gate.request).temperature = Some(0)
    /\ Val(gate.request).additional_params =
           [NoParams EXCEPT !.stream = Some(FALSE)]
    /\ ~config.disable_caching

\* The reference decision: the temperature is absent or at most 0, none of
\* stream, user, request_id is a key of additional_params, and the provider
\* configuration does not have disable_caching set.
ReferenceCacheable(request, cfg) ==
    /\ request.temperature = None \/ Val(request.temperature) <= 0
    /\ request.additional_params.stream = None
    /\ request.additional_params.user = None
    /\ request.additional_params.request_id = None
    /\ cfg.disable_caching = FALSE

\* C14: _is_cacheable is a total function of the request and the provider
\* configuration: on every request it returns a boolean, true exactly when
\* the reference decision is true, and evaluating it changes neither the
\* request nor the provider.
C14_IsCacheableMatchesReference ==
    [][ (gate.result = None /\ gate'.result # None) =>
            /\ gate'.result = Some(ReferenceCacheable(Val(gate.request), config))
            /\ gate'.request = gate.request
            /\ provider' = provider
            /\ UNCHANGED <<store, tools, tool_handlers>> ]_vars

C14_Witness ==
    /\ gate.result = Some(TRUE)
    /\ Val(gate.request).temperature = Some(-3)
    /\ Val(gate.request).additional_params =
           [NoParams EXCEPT !.max_tokens = Some(100)]

(***************************************************************************)
(* Properties of the Tool Registry (register_tool, _execute_tool)          *)
(***************************************************************************)
\* C15: once register_tool(definition, handler) has bound a handler to
\* definition.name, executing that name invokes the bound handler exactly
\* once, with the arguments given; when the handler returns a value the
\* call returns a success result whose value is exactly that value.
C15_RegisteredToolSucceeds ==
    \A t \in Tasks :
        LET f == tcall[t]
        IN  (f.pc # "idle" /\ f.bound # None) =>
                /\ f.calls = <<[handler |-> Val(f.bound),
                                input |-> Val(f.tool_input)]>>
                /\ f.handler_answer = "return" =>
                       /\ f.pc = "done"
                       /\ f.raised = None
                       /\ f.result # None
                       /\ Val(f.result).success = Some(TRUE)
                       /\ Val(f.result).result = f.handler_value
                       /\ Val(f.result).error = None

C15_Witness ==
    \E t \in Tasks :
        /\ regs = <<[name |-> "calculator", handler |-> "h1"]>>
        /\ tcall[t].tool_name = Some("calculator")
        /\ tcall[t].calls = <<[handler |-> "h1", input |-> [a |-> 5, b |-> 3]]>>
        /\ tcall[t].result = Some(SuccessResult(8))

\* The names a list holds, and whether it holds none twice.
Range(s) == { s[i] : i \in 1..Len(s) }
NoDuplicates(s) == \A i, j \in 1..Len(s) : s[i] = s[j] => i = j

\* C16: executing a tool name that no register_tool call has registered
\* returns at once, without raising and without invoking any handler, a
\* failure result that lists exactly the names registered at that moment.
C16_UnknownToolListsRegistered ==
    \A t \in Tasks :
        LET f == tcall[t]
        IN  (f.pc # "idle" /\ Val(f.tool_name) \notin f.known) =>
                /\ f.pc = "done"
                /\ f.raised = None
                /\ f.calls = <<>>
                /\ f.result # None
                /\ Val(f.result).error # None
                /\ Val(f.result).success # Some(TRUE)
                /\ Val(f.result).result = None
                /\ Val(f.result).available_tools # None
                /\ Range(Val(Val(f.result).available_tools)) = f.known
                /\ NoDuplicates(Val(Val(f.result).available_tools))

C16_Witness ==
    \E t \in Tasks :
        /\ Len(regs) = 3
        /\ tcall[t].tool_name = Some("missing")
        /\ tcall[t].known = {"calculator", "search"}
        /\ tcall[t].pc = "done"
        /\ Val(tcall[t].result).available_tools = Some(<<"search", "calculator">>)

\* C17: when the handler of a registered tool fails with an error,
\* _execute_tool does not let it propagate: the call returns a failure
\* result carrying that error's message, and the step leaves the registry
\* as it was.
C17_HandlerErrorContained ==
    [][ \A t \in Tasks :
            (tcall[t].pc = "handler" /\ tcall'[t].handler_answer = "raise") =>
                /\ tcall'[t].pc = "done"
                /\ tcall'[t].raised = None
                /\ tcall'[t].result # None
                /\ Val(tcall'[t].result).error = tcall'[t].handler_error
                /\ Val(tcall'[t].result).success = Some(FALSE)
                /\ Val(tcall'[t].result).result = None
                /\ tools' = tools
                /\ tool_handlers' = tool_handlers ]_vars

C17_Witness ==
    \E t \in Tasks :
        /\ tcall[t].handler_answer = "raise"
        /\ tcall[t].handler_error = Some("Tool failed")
        /\ tcall[t].result = Some(FailureResult("Tool failed"))
        /\ DictHas(tool_handlers, Val(tcall[t].tool_name))

\* C18: every result _execute_tool returns is a success or a failure: it
\* is a success (success = True, carrying the handler's value) exactly when
\* the handler was found and returned normally, and in both other cases,
\* unknown tool name and failing handler, it is a failure carrying an
\* error message and no value.
C18_ResultTagged ==
    \A t \in Tasks :
        LET f == tcall[t]
        IN  f.pc = "done" =>
                /\ f.raised = None
                /\ f.result # None
                /\ LET r == Val(f.result)
                       found == f.bound # None
                   IN  /\ (r.success = Some(TRUE)) <=>
                              (found /\ f.handler_answer = "return")
                       /\ r.success = Some(TRUE) =>
                              (r.result = f.handler_value /\ r.error = None)
                       /\ r.success # Some(TRUE) =>
                              (r.error # None /\ r.result = None)
                       /\ (found /\ f.handler_answer = "raise") =>
                              r.error = f.handler_error
                       /\ ~found =>
                              r.error = Some(NotFoundMessage(Val(f.tool_name)))

C18_Witness ==
    \E t \in Tasks :
        /\ tcall[t].pc = "done"
        /\ tcall[t].bound = None
        /\ tcall[t].tool_name = Some("search")
        /\ tcall[t].known = {"calculator"}
        /\ Val(tcall[t].result).success = None
        /\ Val(tcall[t].result).error = Some("Tool 'search' not found")

\* C19: registering a second (definition, handler) pair under a name that
\* is already registered succeeds and overwrites the handler: the name is
\* bound to the handler registered last, and every later execution of the
\* name invokes that handler and never the earlier one.
C19_ReRegisterOverwritesHandler ==
    /\ Len(tools) = Len(regs)
    /\ \A n \in RegisteredNames(regs) :
           /\ DictHas(tool_handlers, n)
           /\ Some(DictGet(tool_handlers, n)) = LatestHandler(regs, n)
    /\ \A t \in Tasks :
           \A i \in 1..Len(tcall[t].calls) :
               Some(tcall[t].calls[i].handler) = tcall[t].bound

C19_Witness ==
    \E t \in Tasks :
        /\ regs = <<[name |-> "calculator", handler |-> "h1"],
                    [name |-> "calculator", handler |-> "h2"]>>
        /\ tcall[t].tool_name = Some("calculator")
        /\ tcall[t].bound = Some("h2")
        /\ tcall[t].calls = <<[handler |-> "h2", input |-> [a |-> 5, b |-> 3]]>>
        /\ tcall[t].pc = "done"

\* C20: after any sequence of register_tool calls, no two stored tool
\* definitions have the same name, and the number of stored definitions
\* equals the number of bound handlers.
C20_DefinitionNamesUnique ==
    /\ \A i, j \in 1..Len(tools) : tools[i].name = tools[j].name => i = j
    /\ Len(tools) = Len(tool_handlers)

(***************************************************************************)
(* Properties of the errors the caller receives                            *)
(***************************************************************************)
\* C22: on a provider constructed without an API key every
\* generate_completion and generate_chat_completion call fails with the
\* configuration error, the remote operation is never invoked and no
\* backoff wait is made, and the configuration error is of another kind
\* (class) than the error raised for a remote API status error.
C22_MissingKeyFailsFastDistinctKind ==
    \A t \in Tasks :
        LET f == frame[t]
        IN  (~TruthyStr(api_key) /\ f.pc = "done") =>
                /\ f.error # None
                /\ f.response = None
                /\ f.invocations = 0
                /\ f.waits = <<>>
                /\ Val(f.error).message = ApiKeyError.message
                /\ Val(f.error).cls # WrapError(Err("APIStatusError", 0)).cls

\* C23: a remote API status error outside the retryable set is surfaced
\* without a further attempt as one domain error that carries both the
\* remote status code and the remote message, and whose class is not a
\* class of the remote transport.
C23_PermanentErrorCarriesStatusAndMessage ==
    \A t \in Tasks :
        LET f == frame[t]
        IN  (/\ f.pc = "done"
             /\ f.replies # <<>>
             /\ f.replies[Len(f.replies)] = "permanent"
             /\ Val(f.remote_error).cls = "APIStatusError") =>
                /\ f.invocations = Len(f.replies)
                /\ f.error # None
                /\ Val(f.error).cls \notin RemoteErrorClasses
                /\ Val(f.error).message.text = Val(f.remote_error).message.text
                /\ Val(f.error).status = Val(f.remote_error).status

(***************************************************************************)
(* Properties of the payload and of the response (SpecPayload)             *)
(***************************************************************************)
\* The first of the present values among the request's own value, the
\* provider configuration's and the hard-coded default.
ByPrecedence(explicit, configured, hard) ==
    IF explicit # None THEN Val(explicit)
    ELSE IF configured # None THEN Val(configured)
    ELSE hard

\* C24: the temperature and the max_tokens sent in the remote payload are
\* the request's own temperature / max_tokens when present, otherwise the
\* provider configuration's, otherwise the hard-coded default (0.7 and
\* 4096); an explicit request value, temperature 0 included, is never
\* replaced by a default.
C24_ParametersByPrecedence ==
    \A t \in Tasks :
        LET f == frame[t]
        IN  f.request_params # None =>
                LET request == Val(f.request)
                    params == Val(f.request_params)
                IN  /\ params.temperature =
                           Some(ByPrecedence(request.temperature, config.temperature, 7))
                    /\ params.max_tokens =
                           ByPrecedence(request.max_tokens, config.max_tokens, 4096)

\* Largest token count of the usage the remote may report.
MaxUsageTokens == 8

\* C25: every Response the completion and the chat-completion
\* implementation produce has total_tokens = prompt_tokens +
\* completion_tokens, in its top-level counters and in its usage map, the
\* two parts being the input and output token counts the remote reported.
C25_TotalIsSumOfParts ==
    /\ \A t \in Tasks :
           LET f == frame[t]
           IN  f.impl_response # None =>
                   LET r == Val(f.impl_response)
                       u == Val(f.remote_value).usage
                   IN  /\ r.prompt_tokens = u.input_tokens
                       /\ r.completion_tokens = u.output_tokens
                       /\ r.total_tokens = r.prompt_tokens + r.completion_tokens
                       /\ r.usage.prompt_tokens = r.prompt_tokens
                       /\ r.usage.completion_tokens = r.completion_tokens
                       /\ r.usage.total_tokens =
                              r.usage.prompt_tokens + r.usage.completion_tokens
    /\ \A i, o \in 0..MaxUsageTokens :
           LET r == BuildResponse([content |-> "c1",
                                   usage |-> [input_tokens |-> i, output_tokens |-> o]])
           IN  /\ r.total_tokens = i + o
               /\ r.usage.total_tokens = i + o
               /\ r.prompt_tokens = i /\ r.completion_tokens = o
               /\ r.usage.prompt_tokens = i /\ r.usage.completion_tokens = o

C25_Witness ==
    \E t \in Tasks :
        /\ frame[t].op = "chat_completion"
        /\ frame[t].impl_response # None
        /\ Val(frame[t].remote_value).usage = [input_tokens |-> 3, output_tokens |-> 5]
        /\ Val(frame[t].impl_response).total_tokens = 8
        /\ Val(frame[t].response).usage.total_tokens = 8

\* The messages of msgs that are not tagged system, in order.
NonSystem(msgs) == SelectSeq(msgs, LAMBDA m : m.role # "system")

\* The contents of the system messages of msgs, in order.
SystemContents(msgs) ==
    LET sys == SelectSeq(msgs, LAMBDA m : m.role = "system")
    IN  [i \in 1..Len(sys) |-> sys[i].content]

\* out is kept, each message with its content and with the role Role gives.
SameMessages(out, kept, Role(_)) ==
    /\ Len(out) = Len(kept)
    /\ \A i \in 1..Len(kept) :
           /\ out[i].content = Some(kept[i].content)
           /\ out[i].role = Role(kept[i].role)

\* What C26 says of request, the roles of the messages being written as
\* Role gives.
FormatsAs(request, Role(_)) ==
    IF request.messages # None /\ Val(request.messages) # <<>>
    THEN LET msgs == Val(request.messages)
         IN  /\ SameMessages(FormatMessages(request), NonSystem(msgs), Role)
             /\ Len(SystemContents(msgs)) = 0 =>
                    ExtractSystemMessage(request) = None
             /\ Len(SystemContents(msgs)) = 1 =>
                    ExtractSystemMessage(request) = Some(SystemContents(msgs)[1])
    ELSE /\ FormatMessages(request) = <<[role |-> "user", content |-> request.prompt]>>
         /\ ExtractSystemMessage(request) = None

\* A chat-completion call of task t has formatted its request.
Formatted(t) ==
    /\ frame[t].op = "chat_completion"
    /\ frame[t].request_params # None

\* C26 as stated: for a request with messages, _format_messages returns
\* exactly the non-system messages, in their original relative order, each
\* with its role and content unchanged, and _extract_system_message returns
\* the system message's content (none when there is none); with no
\* messages _format_messages returns a single user message holding the
\* prompt.
C26_RolesUnchanged ==
    \A t \in Tasks :
        Formatted(t) =>
            /\ FormatsAs(Val(frame[t].request), LAMBDA r : r)
            /\ Val(frame[t].request_params).messages =
                   FormatMessages(Val(frame[t].request))

\* C26, amended: the same, each message with its content unchanged and its
\* role unchanged except that the role human is written as user.
C26_RolesUnchangedButHuman ==
    \A t \in Tasks :
        Formatted(t) =>
            /\ FormatsAs(Val(frame[t].request),
                         LAMBDA r : IF r = "human" THEN "user" ELSE r)
            /\ Val(frame[t].request_params).messages =
                   FormatMessages(Val(frame[t].request))

C26_Witness ==
    \E t \in Tasks :
        /\ Formatted(t)
        /\ Val(frame[t].request).messages # None
        /\ Len(Val(Val(frame[t].request).messages)) = 4
        /\ Val(Val(frame[t].request).messages)[1].role = "human"
        /\ Val(frame[t].request_params).messages =
               <<[role |-> "user", content |-> Some("H")],
                 [role |-> "user", content |-> Some("A")]>>
        /\ Val(frame[t].request_params).system = Some("S")

\* C27: for both operations, when the request carries messages the
\* payload sent to the remote call is built from them, and the prompt is
\* used only when no messages are present.
C27_MessagesBeforePrompt ==
    \A t \in Tasks :
        LET f == frame[t]
        IN  f.request_params # None =>
                LET request == Val(f.request)
                    sent == Val(f.request_params).messages
                IN  IF request.messages # None /\ Val(request.messages) # <<>>
                    THEN SameMessages(sent, NonSystem(Val(request.messages)),
                                      LAMBDA r : IF r = "human" THEN "user" ELSE r)
                    ELSE sent = <<[role |-> "user", content |-> request.prompt]>>

\* The step that a call suspended at its current await (or not yet begun)
\* takes when the awaited thing answers can be taken now.
CanProceed(u) ==
    /\ frame[u].pc = "idle" => ENABLED GenerateCompletion(u)
    /\ frame[u].pc = "idle" => ENABLED GenerateChatCompletion(u)
    /\ frame[u].pc = "cache_get" => ENABLED CacheGetReturn(u)
    /\ frame[u].pc = "remote" => ENABLED RemoteReturn(u)
    /\ frame[u].pc = "remote" => ENABLED RemoteRaise(u)
    /\ frame[u].pc = "sleep" => ENABLED SleepDone(u)
    /\ frame[u].pc = "cache_put" => ENABLED CachePutReturn(u)

\* C28: while one request on the shared provider is suspended in a backoff
\* wait, every other request can take its next step (begin, have its cache
\* read, remote call or cache write answered) without the wait ending; no
\* request's progress waits for another request's backoff.
C28_BackoffBlocksNoOtherRequest ==
    \A t \in AllTasks :
        frame[t].pc = "sleep" =>
            \A u \in AllTasks \ {t} : CanProceed(u)

\* One request is still in its backoff wait while another, begun during
\* that wait, has made its remote call and completed with a response.
C28_Witness ==
    /\ frame["t1"].pc = "sleep"
    /\ frame["t2"].pc = "done"
    /\ frame["t2"].began_in_backoff
    /\ frame["t2"].response # None
    /\ Len(frame["t2"].replies) >= 1

\* The call of t was cancelled in its remote call or its backoff wait.
CancelledInRetry(f) == f.cancelled_at \in {"remote", "sleep"}

\* A cancelled call has ended with the cancellation, made no remote call
\* beyond those begun before it, and made no cache write; the other calls
\* can still take their next step.
CancelledStaysEnded ==
    \A t \in AllTasks :
        CancelledInRetry(frame[t]) =>
            /\ frame[t].pc = "done"
            /\ frame[t].error # None
            /\ Val(frame[t].error).cls = CancelledError.cls
            /\ frame[t].retry_error = frame[t].error
            /\ frame[t].impl_error = frame[t].error
            /\ frame[t].response = None
            /\ frame[t].cache_writes = 0
            /\ frame[t].put_key = None
            /\ frame[t].invocations =
                   Len(frame[t].replies)
                       + (IF frame[t].cancelled_at = "remote" THEN 1 ELSE 0)
            /\ \A u \in AllTasks \ {t} : CanProceed(u)

\* The step that cancels the call of t changes nothing but that call: the
\* store, the provider and every other call are as they were, and the call
\* of t, once cancelled, never moves again.
CancelTouchesOnlyItsCall ==
    \A t \in AllTasks :
        /\ (~CancelledInRetry(frame[t]) /\ CancelledInRetry(frame'[t])) =>
              /\ frame'[t].pc = "done"
              /\ frame'[t].invocations = frame[t].invocations
              /\ frame'[t].replies = frame[t].replies
              /\ store' = store
              /\ provider' = provider
              /\ \A u \in AllTasks \ {t} : frame'[u] = frame[u]
        /\ CancelledInRetry(frame[t]) => frame'[t] = frame[t]

\* C29: cancelling a request suspended in a remote call or a backoff wait
\* ends it with no further remote attempt and no cache write on its behalf,
\* and leaves every other in-flight request, the cache and the provider as
\* they were, so the others complete as they would have.
C29_CancelEndsOnlyItsOwnCall ==
    []CancelledStaysEnded /\ [][CancelTouchesOnlyItsCall]_vars

\* A call was cancelled in its backoff wait while another was in flight, and
\* the other has completed with a response.
C29_Witness ==
    /\ frame["t1"].cancelled_at = "sleep"
    /\ frame["t1"].cancelled_beside
    /\ frame["t2"].pc = "done"
    /\ frame["t2"].response # None

\* C30: within one dispatcher invocation the cache read has been answered
\* (with nothing) before the _impl method is invoked, and the cache write
\* starts only after that method returned a response: while the read or the
\* generation is going on no write has been started, and each of the three
\* steps happens at most once, whatever the other request does.
C30_ReadThenGenerateThenWrite ==
    \A t \in AllTasks :
        LET f == frame[t]
        IN  /\ f.cache_reads <= 1 /\ f.impl_calls <= 1 /\ f.cache_writes <= 1
            /\ f.pc = "cache_get" =>
                  f.impl_calls = 0 /\ f.invocations = 0 /\ f.cache_writes = 0
            /\ (f.impl_calls > 0 /\ f.cache_reads > 0) =>
                  f.get_answer \in {"miss", "expired"}
            /\ f.pc \in {"remote", "sleep"} =>
                  /\ f.impl_calls = 1
                  /\ f.impl_response = None
                  /\ f.cache_writes = 0
                  /\ f.put_key = None
            /\ f.cache_writes > 0 =>
                  /\ f.impl_calls = 1
                  /\ f.impl_response # None
                  /\ f.pc \in {"cache_put", "done"}

\* One request is writing the response it generated to the cache, after a
\* cache read that found nothing, while the other request's generation is
\* going on after its own cache read.
C30_Witness ==
    /\ frame["t1"].pc = "cache_put"
    /\ frame["t1"].get_answer = "miss"
    /\ frame["t1"].impl_response # None
    /\ frame["t2"].pc = "remote"
    /\ frame["t2"].get_answer = "miss"

\* An execution that has begun either found no handler under its name and
\* returned the not-registered result, or invoked once, with its input, the
\* handler bound to the name when it looked the name up, and, once that
\* handler answered, returned the result of the answer; while the handler
\* is suspended its return can be delivered.
RunsTheHandlerItLookedUp ==
    \A t \in AllTasks :
        LET f == tcall[t]
        IN  f.pc # "idle" =>
                IF f.bound = None
                THEN /\ f.pc = "done"
                     /\ f.calls = <<>>
                     /\ f.raised = None
                     /\ f.result # None
                     /\ Val(f.result).error = Some(NotFoundMessage(Val(f.tool_name)))
                     /\ Val(f.result).success = None
                ELSE /\ f.handler = f.bound
                     /\ f.calls = <<[handler |-> Val(f.bound),
                                     input |-> Val(f.tool_input)]>>
                     /\ f.pc = "handler" => ENABLED HandlerReturn(t)
                     /\ f.pc = "done" =>
                           /\ f.raised = None
                           /\ f.handler_answer = "return" =>
                                 f.result = Some(SuccessResult(Val(f.handler_value)))
                           /\ f.handler_answer = "raise" =>
                                 f.result = Some(FailureResult(Val(f.handler_error)))

\* A registration leaves every execution as it was.
RegistrationTouchesNoExecution == regs' # regs => tcall' = tcall

\* C21: under any interleaving of register_tool calls with in-flight
\* _execute_tool calls, every execution either returns the not-registered
\* failure result or runs to completion the handler bound to the name when
\* it looked the name up; a registration made while the handler is
\* suspended neither fails the execution nor changes the handler it runs.
C21_RegistrationInterleavesSafely ==
    []RunsTheHandlerItLookedUp /\ [][RegistrationTouchesNoExecution]_vars

\* An execution completed with the value of the handler it had looked up
\* although the name was bound to another handler while that handler was
\* suspended, and the other caller's execution runs the new handler.
C21_Witness ==
    /\ tcall["t1"].pc = "done"
    /\ tcall["t1"].tool_name = Some("calculator")
    /\ tcall["t1"].bound = Some("h1")
    /\ LatestHandler(regs, "calculator") = Some("h2")
    /\ tcall["t1"].result = Some(SuccessResult(8))
    /\ tcall["t2"].pc = "handler"
    /\ tcall["t2"].tool_name = Some("calculator")
    /\ tcall["t2"].handler = Some("h2")

(***************************************************************************)
(* Properties of the calls that go past the cache                          *)
(***************************************************************************)
\* C31: when no cache collaborator is attached, or the request is not
\* cacheable, a generate_completion or generate_chat_completion call makes
\* no cache read and no cache write, invokes the _impl method exactly once,
\* and gives its caller what that method gave: its response unchanged, or
\* its error.
C31_NoCacheNoCacheTraffic ==
    \A t \in Tasks :
        LET f == frame[t]
        IN  (f.pc # "idle" /\ ~UseCache(Val(f.request))) =>
                /\ f.cache_reads = 0
                /\ f.cache_writes = 0
                /\ f.get_key = None
                /\ f.put_key = None
                /\ f.get_answer = "none"
                /\ f.put_answer = "none"
                /\ f.impl_calls = 1
                /\ f.pc \in {"remote", "sleep", "done"}
                /\ f.pc = "done" =>
                      /\ f.response = f.impl_response
                      /\ f.error = f.impl_error
                      /\ (f.response = None) # (f.error = None)

\* With a cache attached, a request of positive temperature was answered by
\* the _impl method, invoked once, with no cache call.
C31_Witness ==
    \E t \in Tasks :
        /\ cache_service # None
        /\ ~config.disable_caching
        /\ frame[t].pc = "done"
        /\ frame[t].request # None
        /\ frame[t].request = Some([NoRequest EXCEPT !.prompt = Some("p1"),
                                                      !.temperature = Some(7)])
        /\ frame[t].response # None
        /\ frame[t].response = frame[t].impl_response
        /\ frame[t].impl_calls = 1
        /\ frame[t].cache_reads = 0
        /\ frame[t].cache_writes = 0

(***************************************************************************)
(* Properties of the embeddings placeholder and of the provider factory    *)
(***************************************************************************)
\* A generate_embeddings call returned, without raising and without a
\* remote call, one vector of 64 placeholder components per text, and
\* emitted one warning.
EmbeddingsArePlaceholders ==
    ecall.pc = "done" =>
        /\ ecall.raised = None
        /\ ecall.remote_calls = 0
        /\ ecall.warnings = 1
        /\ ecall.result # None
        /\ Len(Val(ecall.result)) = Len(Val(ecall.texts))
        /\ \A i \in 1..Len(Val(ecall.result)) :
               /\ Len(Val(ecall.result)[i]) = 64
               /\ \A j \in 1..64 : Val(ecall.result)[i][j] = PlaceholderComponent

\* A generate_embeddings call starts no generation call and changes neither
\* the cache nor the provider.
EmbeddingsTouchNothing ==
    ecall' # ecall =>
        /\ ecall'.pc = "done"
        /\ frame' = frame
        /\ store' = store
        /\ provider' = provider

\* C32: generate_embeddings never fails and never makes a remote call: for
\* a list of n texts it returns exactly n placeholder vectors of
\* dimensionality 64 and emits a warning.
C32_EmbeddingsPlaceholder ==
    []EmbeddingsArePlaceholders /\ [][EmbeddingsTouchNothing]_vars

\* Three texts were embedded, the empty text among them.
C32_Witness ==
    /\ ecall.pc = "done"
    /\ ecall.texts = Some(<<Chars(9), Chars(0), Chars(9)>>)
    /\ Len(Val(ecall.result)) = 3
    /\ Len(Val(ecall.result)[2]) = 64
    /\ ecall.warnings = 1

\* C33: get_provider rejects an empty or missing API key with the 'API key
\* is required' error for every name, rejects a name outside PROVIDERS with
\* the 'Unknown provider' error when a key is given, and otherwise returns
\* a new instance of the class registered under the name, holding the given
\* key and configuration; no instance is constructed on either error.
C33_FactoryValidatesThenConstructs ==
    pcall.pc = "done" =>
        LET key == pcall.api_key
            name == Val(pcall.name)
            kwargs == Val(pcall.kwargs)
        IN  IF key \in {None, Some("")}
            THEN /\ pcall.raised = Some([prefix |-> "API key is required", text |-> ""])
                 /\ pcall.result = None
                 /\ pcall.constructed = 0
            ELSE IF name # "anthropic"
            THEN /\ pcall.raised = Some([prefix |-> "Unknown provider: ", text |-> name])
                 /\ pcall.result = None
                 /\ pcall.constructed = 0
            ELSE /\ pcall.raised = None
                 /\ pcall.constructed = 1
                 /\ pcall.result # None
                 /\ Val(pcall.result).class = "AnthropicProvider"
                 /\ Val(pcall.result).api_key = Val(key)
                 /\ kwargs.config # None =>
                        Val(pcall.result).config = Val(kwargs.config)
                 /\ kwargs.model_id # None =>
                        Val(pcall.result).model_id = Val(kwargs.model_id)

\* get_provider("anthropic", "sk-ant", config={"max_retries": 5}) returned
\* a provider holding the key and the configuration.
C33_Witness ==
    /\ pcall.pc = "done"
    /\ pcall.name = Some("anthropic")
    /\ pcall.api_key = Some("sk-ant")
    /\ pcall.result # None
    /\ Val(pcall.result).api_key = "sk-ant"
    /\ Val(pcall.result).config.max_retries = Some(5)
    /\ Val(pcall.result).max_retries = 5
    /\ pcall.constructed = 1

(***************************************************************************)
(* Properties of what reaches the cache                                    *)
(***************************************************************************)
\* The temperature of the payload the call sent to the remote API is
\* greater than 0.
SentHot(f) ==
    /\ f.request_params # None
    /\ Val(f.request_params).temperature # None
    /\ Val(Val(f.request_params).temperature) > 0

\* C34: no response generated with an effective sampling temperature
\* greater than 0 (the temperature sent in the remote payload) is written
\* to the cache, whether the request came through generate_completion or
\* was built by the generate convenience method.
C34_HotResponsesNeverCached ==
    \A t \in Tasks :
        SentHot(frame[t]) =>
            /\ frame[t].cache_writes = 0
            /\ frame[t].put_key = None
            /\ \A k \in CacheKeys : store[k] = None

(***************************************************************************)
(* Properties of the retry loop under every configured max_retries         *)
(***************************************************************************)
\* C35: for every max_retries a provider can be configured with, 0 and
\* negative values included, _retry_with_backoff invokes the operation at
\* least once and ends with a result the operation returned or with an
\* error the operation raised.
C35_AtLeastOneInvocation ==
    \A t \in Tasks :
        LET f == frame[t]
        IN  (f.pc = "done" /\ f.impl_calls = 1) =>
                /\ f.invocations >= 1
                /\ \/ f.retry_value # None /\ f.retry_value = f.remote_value
                   \/ f.retry_error # None /\ f.remote_error # None
                        /\ Val(f.retry_error).cls = Val(f.remote_error).cls

\* The invocations of the operation a call may make.
RetryBudget == IF max_retries > 0 THEN max_retries ELSE 0

\* A call never invokes the operation more often than max_retries allows.
WithinRetryBudget ==
    \A t \in Tasks :
        /\ frame[t].invocations <= RetryBudget
        /\ Len(frame[t].waits) <= RetryBudget

\* A call that is in its remote call or in its backoff wait ends.
RetryEnds ==
    \A t \in Tasks :
        (frame[t].pc \in {"remote", "sleep"}) ~> (frame[t].pc = "done")

\* C36: every call of _retry_with_backoff terminates, provided each attempt
\* of the operation and each wait terminates: it ends with a result or an
\* error after at most max_retries invocations of the operation, even when
\* the operation fails with a retryable error every time.
C36_RetryTerminates ==
    []WithinRetryBudget /\ RetryEnds

\* The operation failed with a retryable error on every one of the
\* max_retries = 3 attempts and the call has ended with an error.
C36_Witness ==
    \E t \in Tasks :
        /\ max_retries = 3
        /\ frame[t].pc = "done"
        /\ frame[t].invocations = 3
        /\ Len(frame[t].waits) = 2
        /\ \A i \in 1..3 : frame[t].replies[i] = "transient"
        /\ frame[t].error # None

(***************************************************************************)
(* Properties of the cache across the two operations                       *)
(***************************************************************************)
\* C37: a response returned on a cache hit was produced by the
\* implementation of the operation that returns it: with two calls on an
\* empty cache, a call served from the cache has the same operation as the
\* call that stored under its key, so that a response stored by
\* generate_completion is never served by generate_chat_completion for the
\* same request, nor the reverse.
C37_HitFromSameOperation ==
    \A u \in AllTasks :
        frame[u].get_answer = "hit" =>
            \A t \in AllTasks \ {u} :
                frame[t].put_key = frame[u].get_key =>
                    frame[t].op = frame[u].op

(***************************************************************************)
(* Properties of the registry beside the generation calls                  *)
(***************************************************************************)
\* The payload of every generation call carries no tool definitions,
\* whatever has been registered, and is the payload its request gives.
PayloadIgnoresRegistry ==
    \A t \in Tasks :
        frame[t].request_params # None =>
            /\ Val(frame[t].request_params).tools = None
            /\ Val(frame[t].request_params).messages =
                   ImplArgs(frame[t].op, Val(frame[t].request), config).messages
            /\ Val(frame[t].request_params).system =
                   ImplArgs(frame[t].op, Val(frame[t].request), config).system

\* A registration changes the definition list and the handler map only.
RegisterChangesOnlyRegistry ==
    regs' # regs =>
        /\ frame' = frame
        /\ tcall' = tcall
        /\ provider' = provider
        /\ store' = store
        /\ aux' = aux

\* A step of a generation call invokes no handler and leaves the registry.
GenerationRunsNoHandler ==
    frame' # frame =>
        /\ tooling' = tooling
        /\ \A t \in AllTasks : tcall'[t].calls = <<>>

\* C38: register_tool changes only the registry: after any sequence of
\* registrations the payload generate_completion and
\* generate_chat_completion send is the one sent with no tool registered,
\* and no generation call invokes a registered handler.
C38_RegistryStaysOutOfGeneration ==
    /\ []PayloadIgnoresRegistry
    /\ [][RegisterChangesOnlyRegistry /\ GenerationRunsNoHandler]_vars

\* With three registrations made, a chat call has sent its payload without
\* tools and returned a response.
C38_Witness ==
    \E t \in Tasks :
        /\ Len(regs) = 3
        /\ Len(tools) = 3
        /\ frame[t].op = "chat_completion"
        /\ frame[t].pc = "done"
        /\ frame[t].response # None
        /\ frame[t].request_params # None
        /\ Val(frame[t].request_params).tools = None
        /\ Val(frame[t].request_params).system = Some("s1")

\* The content c is in the system-prompt slot of a payload (the slot holds
\* one content as it was written: nothing joins contents).
InSystemSlot(c, params) == params.system # None /\ Val(params.system) = c

\* C39: for a chat-completion request no message content is lost on the
\* way to the remote payload: every non-system message is in the payload's
\* message list, in order, and the content of every system message is in
\* the system-prompt slot, also with several system messages or with
\* system messages only.
C39_NoMessageContentLost ==
    \A t \in Tasks :
        (Formatted(t) /\ TruthySeq(Val(frame[t].request).messages)) =>
            LET msgs == Val(Val(frame[t].request).messages)
                params == Val(frame[t].request_params)
                kept == NonSystem(msgs)
            IN  /\ Len(params.messages) = Len(kept)
                /\ \A i \in 1..Len(kept) :
                       params.messages[i].content = Some(kept[i].content)
                /\ \A i \in 1..Len(SystemContents(msgs)) :
                       InSystemSlot(SystemContents(msgs)[i], params)

(***************************************************************************)
(* Properties of the provider under its requests                           *)
(***************************************************************************)
\* A step of a generation call, of a tool execution, of generate_embeddings
\* or of get_token_count.
RequestPathStep ==
    \/ frame' # frame
    \/ tcall' # tcall
    \/ ecall' # ecall
    \/ ncall' # ncall

\* The fields of the provider are as they were.
ProviderKept ==
    /\ api_key' = api_key
    /\ model_id' = model_id
    /\ config' = config
    /\ max_retries' = max_retries
    /\ retry_delay' = retry_delay
    /\ tools' = tools
    /\ tool_handlers' = tool_handlers

\* C40: the request path keeps no per-request state on the provider: every
\* step of a generate_completion, generate_chat_completion,
\* generate_embeddings, get_token_count or _execute_tool call, successful
\* or failing, leaves the api key, the model id, the config, max_retries,
\* retry_delay, the tool definitions and the handler map unchanged.
C40_RequestPathKeepsProvider ==
    [][RequestPathStep => ProviderKept]_vars

\* A generation call failed after a backoff wait, a tool execution failed
\* in its handler, embeddings and a token count were answered, and the
\* provider is as constructed, with its one tool.
C40_Witness ==
    \E t \in Tasks :
        /\ frame[t].pc = "done"
        /\ frame[t].error # None
        /\ Len(frame[t].waits) = 1
        /\ tcall[t].pc = "done"
        /\ tcall[t].handler_answer = "raise"
        /\ ecall.pc = "done"
        /\ ncall.pc = "done"
        /\ max_retries = 2
        /\ retry_delay = DefaultRetryDelay
        /\ tool_handlers = <<[key |-> "calculator", value |-> "h1"]>>
        /\ Len(tools) = 1

====
